---- MODULE Spec2Model ----
(***************************************************************************)
(* Model of the Clapshot server: the API server                            *)
(* (clapshot_server/api_server.py: socket.io handlers, push_message, the   *)
(* upload handler) and the start-up coroutine go() of                      *)
(* clapshot_server/main.py with its worker thread and its two tasks.       *)
(*                                                                         *)
(* Granularity.  Every handler is an asyncio coroutine.  One step of the   *)
(* model is the synchronous code that follows the previous await together  *)
(* with the operation of the next await (a storage call, a file read or    *)
(* write, or sio.emit, whose recipients the library resolves               *)
(* synchronously in the call).  The session lookups sio.get_session and    *)
(* sio.save_session read an in-memory dict and never suspend; they belong  *)
(* to the step that follows them.                                          *)
(*                                                                         *)
(* The storage engine (clapshot_server/database.py) is not part of the     *)
(* source tree; its operations (the Db... definitions) are modelled from   *)
(* the storage contract of the design document: atomic per record,         *)
(* cascade delete of a video, no validation of its own.                    *)
(*                                                                         *)
(* socket.io: a sid is in its own room while connected, an emit to a room  *)
(* reaches the sids in it at the time of the call and raises nothing when  *)
(* the room is empty, enter_room of a sid that is gone raises, and the     *)
(* library drops a sid from its rooms when it disconnects.                 *)
(*                                                                         *)
(* Collaborator failures are modelled where the code distinguishes them:   *)
(* in push_message the storage write and the emit may each raise; in the   *)
(* upload mkdir, open, read_chunk and write may each raise.                *)
(*                                                                         *)
(* The worker (clapshot_server/video_processor.py) is not part of the      *)
(* source tree either: it is a thread that deposits results and stops.     *)
(***************************************************************************)
EXTENDS Integers, Sequences, FiniteSets, TLC

\* ---------------------------------------------------------------- bounds
MaxConn == 2        \* connections (socket ids) ever established
MaxMsgs == 1        \* messages ever persisted
MaxComments == 2    \* comments ever stored
MaxResults == 3     \* results the worker ever deposits
MaxChunks == 9      \* chunks in the stream of an upload

QueueSize == 8      \* asyncio.Queue(8), the buffer of an upload

Sids    == 1..MaxConn
Server  == 0                      \* the task of a server-side caller of push_message
TaskIds == {Server} \cup Sids     \* the model runs one handler at a time per connection
Users   == {"u1", "u2"}
Admin   == "admin"
Lobby   == "huoneusto"
Hashes  == {"v1", "v2"}
Texts   == {"a", "b"}
Drawings == {"", "d1"}            \* no drawing, or the file name of a drawing

VARIABLES
    conn,           \* sid -> "free" | "open" | "closed"   (socket.io's view)
    session,        \* sid -> user id saved by connect ("" before)
    userid_to_sid,  \* self.userid_to_sid: a dict, user id -> sid
    rooms,          \* sid -> set of named rooms the sid has entered
    messages,       \* storage: the Message table, id = index
    videos,         \* storage: the Video table, a dict video_hash -> owner id
    comments,       \* storage: the Comment table, in storage order
    nextId,         \* storage: the next comment id
    files,          \* drawing files on disk: set of <<video_hash, file name>>
    task,           \* task id -> the running handler's position and locals
    out,            \* what the last step put on the wire / how its push_message ended
    view,           \* history: sid -> comment id -> text of the last new_comment the
                    \* sid received for it ("none" before); kept for the ids in its domain
    \* main.py, go()
    vp_thread,          \* the worker thread: "alive" | "died" | "stopped"
    vp_interrupt_flag,  \* threading.Event: is it set
    vp_result_queue,    \* queue.SimpleQueue of the worker's results
    push_message_queue, \* asyncio.Queue handed to run_server
    task_go,            \* go(): "loop" | "join" | "stopped"
    task_api,           \* run_api_server(): "start" | "failed" | "cancelled"
    task_msg,           \* vp_result_deliverer(): "start" | "sleep" | "returned" |
                        \*                        "failed" | "cancelled"
    hist,               \* history of go(): results deposited and taken, why the loop ended
    \* post_upload_file
    upload,         \* the handler's position, locals and response
    inq,            \* asyncio.Queue(8) between reader and writer
    reader,         \* the reader stage: position and the chunk it holds
    writer,         \* the writer stage: position and the chunk it holds
    disk,           \* upload_dir: the directory and file of this upload
    ingested        \* the calls of ingest_callback, in order

registry == <<conn, session, userid_to_sid, rooms>>
store    == <<videos, comments, nextId, files>>
server   == <<conn, session, userid_to_sid, rooms, messages, videos, comments,
              nextId, files, task, out, view>>
bridge   == <<vp_thread, vp_interrupt_flag, vp_result_queue, push_message_queue,
              task_go, task_api, task_msg, hist>>
pipeline == <<upload, inq, reader, writer, disk, ingested>>
vars     == <<server, bridge, pipeline>>

\* ------------------------------------------------------------- records
NoPush ==
    [user_id |-> "", persist |-> FALSE, dont_throw |-> FALSE, text |-> "",
     id |-> 0, pres |-> "none"]

\* Message(event_name=..., user_id=..., message=...) handed to push_message
MakePush(user_id, text, persist, dont_throw) ==
    [NoPush EXCEPT !.user_id = user_id, !.text = text,
                   !.persist = persist, !.dont_throw = dont_throw]

NoComment ==
    [id |-> 0, video_hash |-> "", parent_id |-> 0, user_id |-> "", comment |-> "",
     drawing |-> ""]

\* the locals of a handler; sent is history: the events this handler emitted so far
IdleTask ==
    [kind |-> "idle", pc |-> "done", user_id |-> "", msgs |-> <<>>, i |-> 0,
     video_hash |-> "", owner |-> "", comment_id |-> 0, text |-> "",
     c |-> NoComment, snap |-> <<>>, toSid |-> 0, after |-> "done",
     sent |-> <<>>, push |-> NoPush, ret |-> "done", exc |-> "done"]

\* a step's output: at most one emit (ev, its target, its recipients), and how a
\* push_message call ended in this step, if one did
NoOut ==
    [ev |-> "", by |-> 0, toSid |-> 0, toRoom |-> "", to |-> {}, id |-> 0,
     text |-> "", pushEnd |-> "", push |-> NoPush, route |-> {}, dfail |-> FALSE]

Running(t) == task[t].pc # "done"

\* a handler returns: its locals are gone
Return(rec) == IdleTask

\* the handler goes on at pc, or returns
Goto(rec, pc) == IF pc = "done" THEN Return(rec) ELSE [rec EXCEPT !.pc = pc]

\* route(identity): the sid the identity map holds, as a set
Route(u) == IF u \in DOMAIN userid_to_sid THEN {userid_to_sid[u]} ELSE {}

\* sio.emit(..., room=sid): a sid is in its own room while connected
SidMembers(sid) == IF conn[sid] = "open" THEN {sid} ELSE {}

\* variant of line 104: an emit to a room reaches every connected sid
RoomMembersAnyone(room) == {s \in Sids : conn[s] = "open"}

\* sio.emit(..., room=video_hash): the sids that entered the room
RoomMembers(room) == {s \in Sids : room \in rooms[s]}

\* sio.emit(ev, ..., room=sid) made by task t
EmitToSid(t, ev, sid, id, text) ==
    [NoOut EXCEPT !.ev = ev, !.by = t, !.toSid = sid, !.to = SidMembers(sid),
                  !.id = id, !.text = text]

\* sio.emit(ev, ..., room=video_hash) made by task t
EmitToRoom(t, ev, room, id, text) ==
    [NoOut EXCEPT !.ev = ev, !.by = t, !.toRoom = room, !.to = RoomMembers(room),
                  !.id = id, !.text = text]

\* ------------------------------------------------------------- storage
\* Database.add_message: stores the message unseen and assigns its id
\* (history: got, the message was emitted to a sid that was connected; offline,
\*  push_message found no route for it)
DbAddMessage(p) ==
    Append(messages, [user_id |-> p.user_id, text |-> p.text, seen |-> FALSE,
                      got |-> FALSE, offline |-> FALSE])

\* Database.get_user_messages: every stored message of the user, in id order
RECURSIVE UserMessagesFrom(_, _)
UserMessagesFrom(u, k) ==
    IF k > Len(messages) THEN <<>>
    ELSE IF messages[k].user_id = u
         THEN <<[id |-> k, seen |-> messages[k].seen]>> \o UserMessagesFrom(u, k + 1)
         ELSE UserMessagesFrom(u, k + 1)

DbGetUserMessages(u) == UserMessagesFrom(u, 1)

\* Database.set_message_seen(id, True)
DbSetMessageSeen(id) == [messages EXCEPT ![id].seen = TRUE]

\* history: stored message id was emitted to the sids in to
NoteGot(msgs, id, to) ==
    IF id = 0 \/ to = {} THEN msgs ELSE [msgs EXCEPT ![id].got = TRUE]

\* history: push_message found no route for stored message id
NoteOffline(msgs, id) ==
    IF id = 0 THEN msgs ELSE [msgs EXCEPT ![id].offline = TRUE]

\* -------------------------------------------------------- push_message
\* how a push_message call of task t ended
PushEnded(t, p, how, r, dfail) ==
    [NoOut EXCEPT !.by = t, !.pushEnd = how, !.push = p, !.route = r,
                  !.dfail = dfail]

\* variant of lines 380-386: a suppressed persistence failure ends the call
\* before the emit
PushPersistOpGivesUp(t, base, p) ==
    \/ /\ Len(messages) < MaxMsgs
       /\ messages' = DbAddMessage(p)
       /\ task' = [task EXCEPT ![t] =
                     [base EXCEPT !.pc = "push_emit",
                                  !.push = [p EXCEPT !.id = Len(messages) + 1,
                                                     !.pres = "ok"]]]
       /\ out' = NoOut
    \/ /\ task' = [task EXCEPT ![t] =
                     Goto([base EXCEPT !.push = NoPush],
                          IF p.dont_throw THEN base.ret ELSE base.exc)]
       /\ out' = PushEnded(t, [p EXCEPT !.pres = "fail"],
                           IF p.dont_throw THEN "returned" ELSE "raised",
                           Route(p.user_id), FALSE)
       /\ UNCHANGED messages

\* lines 380-386: persist through storage; a failure is raised unless dont_throw
PushPersistOp(t, base, p) ==
    \/ /\ Len(messages) < MaxMsgs
       /\ messages' = DbAddMessage(p)
       /\ task' = [task EXCEPT ![t] =
                     [base EXCEPT !.pc = "push_emit",
                                  !.push = [p EXCEPT !.id = Len(messages) + 1,
                                                     !.pres = "ok"]]]
       /\ out' = NoOut
    \/ /\ p.dont_throw
       /\ task' = [task EXCEPT ![t] =
                     [base EXCEPT !.pc = "push_emit",
                                  !.push = [p EXCEPT !.pres = "fail"]]]
       /\ out' = NoOut
       /\ UNCHANGED messages
    \/ /\ ~p.dont_throw
       /\ task' = [task EXCEPT ![t] = Goto([base EXCEPT !.push = NoPush], base.exc)]
       /\ out' = PushEnded(t, [p EXCEPT !.pres = "fail"], "raised",
                           Route(p.user_id), FALSE)
       /\ UNCHANGED messages

\* variant of lines 387-393: a delivery failure is swallowed whatever dont_throw is
PushDeliverOpSwallows(t, base, p) ==
    LET r == Route(p.user_id)
    IN  \/ /\ r = {}
           /\ task' = [task EXCEPT ![t] = Goto([base EXCEPT !.push = NoPush], base.ret)]
           /\ messages' = NoteOffline(messages, p.id)
           /\ out' = PushEnded(t, p, "returned", r, FALSE)
        \/ \E sid \in r :
             /\ task' = [task EXCEPT ![t] =
                           Goto([base EXCEPT !.push = NoPush], base.ret)]
             /\ messages' = NoteGot(messages, p.id, SidMembers(sid))
             /\ out' = [EmitToSid(t, "message", sid, p.id, p.text) EXCEPT
                          !.pushEnd = "returned", !.push = p, !.route = r]
        \/ \E sid \in r :
             /\ task' = [task EXCEPT ![t] =
                           Goto([base EXCEPT !.push = NoPush], base.ret)]
             /\ out' = [PushEnded(t, p, "returned", r, TRUE) EXCEPT !.toSid = sid]
             /\ UNCHANGED messages

\* lines 387-393: emit to the routed sid, if any; a failure is raised unless dont_throw
PushDeliverOp(t, base, p) ==
    LET r == Route(p.user_id)
    IN  \/ /\ r = {}
           /\ task' = [task EXCEPT ![t] = Goto([base EXCEPT !.push = NoPush], base.ret)]
           /\ messages' = NoteOffline(messages, p.id)
           /\ out' = PushEnded(t, p, "returned", r, FALSE)
        \/ \E sid \in r :
             /\ task' = [task EXCEPT ![t] =
                           Goto([base EXCEPT !.push = NoPush], base.ret)]
             /\ messages' = NoteGot(messages, p.id, SidMembers(sid))
             /\ out' = [EmitToSid(t, "message", sid, p.id, p.text) EXCEPT
                          !.pushEnd = "returned", !.push = p, !.route = r]
        \/ \E sid \in r :
             /\ task' = [task EXCEPT ![t] =
                           Goto([base EXCEPT !.push = NoPush],
                                IF p.dont_throw THEN base.ret ELSE base.exc)]
             /\ out' = [PushEnded(t, p, IF p.dont_throw THEN "returned" ELSE "raised",
                                  r, TRUE) EXCEPT !.toSid = sid]
             /\ UNCHANGED messages

\* a call of push_message: its first awaited operation
StartPush(t, base, p) ==
    IF p.persist THEN PushPersistOp(t, base, p) ELSE PushDeliverOp(t, base, p)

\* push_message resumes after db.add_message
PushEmit(t) ==
    /\ task[t].pc = "push_emit"
    /\ PushDeliverOp(t, task[t], task[t].push)
    /\ UNCHANGED <<registry, store>>
    /\ UNCHANGED <<view, bridge, pipeline>>

\* a server-side caller (run_server's loop: persist, dont_throw) calls push_message
PushCall(u, persist, dont_throw) ==
    /\ ~Running(Server)
    /\ persist => Len(messages) < MaxMsgs
    /\ StartPush(Server, [IdleTask EXCEPT !.kind = "push"],
                 MakePush(u, "info", persist, dont_throw))
    /\ UNCHANGED <<registry, store>>
    /\ UNCHANGED <<view, bridge, pipeline>>

\* ------------------------------------------------- connect / disconnect
FreeSids == {s \in Sids : conn[s] = "free"}

\* self.userid_to_sid[user_id] = sid
Put(map, u, sid) == [x \in DOMAIN map \cup {u} |-> IF x = u THEN sid ELSE map[x]]

\* connect, lines 296-307: save the session, take over the identity, emit welcome
Connect(sid, u) ==
    /\ sid \in FreeSids
    /\ \A s \in FreeSids : sid <= s
    /\ conn' = [conn EXCEPT ![sid] = "open"]
    /\ session' = [session EXCEPT ![sid] = u]
    /\ userid_to_sid' = Put(userid_to_sid, u, sid)
    /\ task' = [task EXCEPT ![sid] =
                  [IdleTask EXCEPT !.kind = "connect", !.pc = "connect_enter",
                                   !.user_id = u]]
    /\ out' = [NoOut EXCEPT !.ev = "welcome", !.by = sid, !.toSid = sid,
                            !.to = {sid}, !.text = u]
    /\ UNCHANGED <<rooms, messages, store>>
    /\ UNCHANGED <<view, bridge, pipeline>>

\* connect, line 308: sio.enter_room(sid, 'huoneusto'); raises if the sid is gone
ConnectEnter(sid) ==
    /\ task[sid].kind = "connect"
    /\ task[sid].pc = "connect_enter"
    /\ rooms' = IF conn[sid] = "open" THEN [rooms EXCEPT ![sid] = @ \cup {Lobby}]
                ELSE rooms
    /\ task' = [task EXCEPT ![sid] = Return(task[sid])]
    /\ out' = NoOut
    /\ UNCHANGED <<conn, session, userid_to_sid, messages, store>>
    /\ UNCHANGED <<view, bridge, pipeline>>

\* dict.pop(user_id, None)
Pop(map, u) == [x \in DOMAIN map \ {u} |-> map[x]]

\* variant of lines 311-314: the identity map keeps its entry
DisconnectKeepsEntry(sid) ==
    /\ conn[sid] = "open"
    /\ conn' = [conn EXCEPT ![sid] = "closed"]
    /\ rooms' = [rooms EXCEPT ![sid] = {}]
    /\ out' = NoOut
    /\ UNCHANGED <<session, userid_to_sid, messages, task, store>>
    /\ UNCHANGED <<view, bridge, pipeline>>

\* disconnect, lines 311-314, then socket.io drops the sid from its rooms
\* (session keeps the identity the sid had: history)
Disconnect(sid) ==
    /\ conn[sid] = "open"
    /\ conn' = [conn EXCEPT ![sid] = "closed"]
    /\ userid_to_sid' = Pop(userid_to_sid, session[sid])
    /\ rooms' = [rooms EXCEPT ![sid] = {}]
    /\ out' = NoOut
    /\ UNCHANGED <<session, messages, task, store>>
    /\ UNCHANGED <<view, bridge, pipeline>>

\* a client event is dispatched for a connected sid whose last handler returned
CanHandle(sid) ==
    /\ conn[sid] = "open"
    /\ ~Running(sid)

\* ----------------------------------------------------- list_my_messages
\* line 277: the loop goes on to the next message, or the handler returns
\* (msgs holds the part of the snapshot the loop has not reached yet)
ListNext(rec) ==
    IF rec.msgs # <<>> THEN [rec EXCEPT !.pc = "list_next"] ELSE Return(rec)

\* lines 273-276: get_user, then db.get_user_messages
ListMyMessages(sid) ==
    /\ CanHandle(sid)
    /\ LET u == session[sid]
           ms == DbGetUserMessages(u)
       IN task' = [task EXCEPT ![sid] =
                     ListNext([IdleTask EXCEPT !.kind = "list_my_messages",
                                               !.user_id = u, !.msgs = ms])]
    /\ out' = NoOut
    /\ UNCHANGED <<registry, messages, store>>
    /\ UNCHANGED <<view, bridge, pipeline>>

\* line 278: emit the next message of the snapshot to room=sid
ListEmit(sid) ==
    /\ task[sid].kind = "list_my_messages"
    /\ task[sid].pc = "list_next"
    /\ LET rec == task[sid]
           m == Head(rec.msgs)
       IN /\ messages' = NoteGot(messages, m.id, SidMembers(sid))
          /\ out' = EmitToSid(sid, "message", sid, m.id, messages[m.id].text)
          /\ task' = [task EXCEPT ![sid] =
                        IF ~m.seen
                        THEN [rec EXCEPT !.i = m.id, !.msgs = Tail(@), !.pc = "list_seen"]
                        ELSE ListNext([rec EXCEPT !.msgs = Tail(@)])]
    /\ UNCHANGED <<registry, store>>
    /\ UNCHANGED <<view, bridge, pipeline>>

\* variant of lines 279-280: the loop goes on without db.set_message_seen
ListSeenUnmarked(sid) ==
    /\ task[sid].kind = "list_my_messages"
    /\ task[sid].pc = "list_seen"
    /\ task' = [task EXCEPT ![sid] = ListNext([task[sid] EXCEPT !.i = 0])]
    /\ out' = NoOut
    /\ UNCHANGED <<registry, messages, store>>
    /\ UNCHANGED <<view, bridge, pipeline>>

\* lines 279-280: the message was unseen in the snapshot: db.set_message_seen
ListSeen(sid) ==
    /\ task[sid].kind = "list_my_messages"
    /\ task[sid].pc = "list_seen"
    /\ messages' = DbSetMessageSeen(task[sid].i)
    /\ task' = [task EXCEPT ![sid] = ListNext([task[sid] EXCEPT !.i = 0])]
    /\ out' = NoOut
    /\ UNCHANGED <<registry, store>>
    /\ UNCHANGED <<view, bridge, pipeline>>

\* ------------------------------------------------ storage: videos, comments
\* Database.get_video: the owner of the video, "" for None
DbGetVideo(h) == IF h \in DOMAIN videos THEN videos[h] ELSE ""

\* SelectSeq without a lambda: the comments that satisfy keep, in storage order
RECURSIVE Filter(_, _)
Filter(seq, keep) ==
    IF seq = <<>> THEN <<>>
    ELSE IF Head(seq).id \in keep THEN <<Head(seq)>> \o Filter(Tail(seq), keep)
         ELSE Filter(Tail(seq), keep)

CommentIds(seq) == {seq[k].id : k \in 1..Len(seq)}

\* Database.get_video_comments: the comments of the video, in storage order
DbGetVideoComments(h) ==
    Filter(comments, {comments[k].id : k \in {j \in 1..Len(comments) :
                                               comments[j].video_hash = h}})

\* Database.get_comment: the comment, NoComment for None
DbGetComment(id) ==
    IF id \in CommentIds(comments)
    THEN comments[CHOOSE k \in 1..Len(comments) : comments[k].id = id]
    ELSE NoComment

\* Database.add_comment: stores the comment as given and assigns its id
DbAddComment(c) == Append(comments, [c EXCEPT !.id = nextId])

\* Database.edit_comment: sets the text of the comment, if it is there
DbEditComment(id, text) ==
    [k \in 1..Len(comments) |->
        IF comments[k].id = id THEN [comments[k] EXCEPT !.comment = text]
        ELSE comments[k]]

\* Database.del_comment: removes the one comment, if it is there
DbDelComment(id) == Filter(comments, CommentIds(comments) \ {id})

\* Database.del_video_and_comments: the video and every comment on it, at once
DbDelVideoComments(h) ==
    Filter(comments, {comments[k].id : k \in {j \in 1..Len(comments) :
                                               comments[j].video_hash # h}})

DbDelVideo(h) == [x \in DOMAIN videos \ {h} |-> videos[x]]

\* --------------------------------------------------- _emit_new_comment
\* line 103: data['comment'] += ' [DRAWING NOT FOUND]'
Marked(text) == IF text = "a" THEN "a [DRAWING NOT FOUND]" ELSE "b [DRAWING NOT FOUND]"

\* a room event of a handler: the emit, and the handler's history of its emits
RoomEvent(t, ev, toSid, room, id, text) ==
    IF toSid # 0 THEN EmitToSid(t, ev, toSid, id, text)
    ELSE EmitToRoom(t, ev, room, id, text)

Note(rec, o) == [rec EXCEPT !.sent = Append(@, [ev |-> o.ev, id |-> o.id,
                                                text |-> o.text, to |-> o.to])]

\* history: the sids an emit of new_comment reached have received its text
Received(o) ==
    [s \in Sids |->
        IF s \in o.to /\ o.id \in DOMAIN view[s] THEN [view[s] EXCEPT ![o.id] = o.text]
        ELSE view[s]]

\* line 104: sio.emit('new_comment', data, room=room), with the data taken at line 96
EmitNewCommentOp(t, base, c, text, toSid, after) ==
    LET o == RoomEvent(t, "new_comment", toSid, c.video_hash, c.id, text)
    IN  /\ out' = o
        /\ view' = Received(o)
        /\ task' = [task EXCEPT ![t] = Goto(Note([base EXCEPT !.c = NoComment], o), after)]

\* lines 96-103: a stored drawing is read from its file before the emit
StartEmitNewComment(t, base, c, toSid, after) ==
    IF c.drawing # "" /\ <<c.video_hash, c.drawing>> \in files
    THEN /\ task' = [task EXCEPT ![t] =
                       [base EXCEPT !.pc = "new_comment_emit", !.c = c,
                                    !.toSid = toSid, !.after = after]]
         /\ out' = NoOut
         /\ UNCHANGED view
    ELSE EmitNewCommentOp(t, base, c,
                          IF c.drawing # "" THEN Marked(c.comment) ELSE c.comment,
                          toSid, after)

\* _emit_new_comment resumes after the file was read
NewCommentEmit(t) ==
    /\ task[t].pc = "new_comment_emit"
    /\ EmitNewCommentOp(t, task[t], task[t].c, task[t].c.comment, task[t].toSid,
                        task[t].after)
    /\ UNCHANGED <<registry, messages, store>>
    /\ UNCHANGED <<bridge, pipeline>>

\* the except block of a handler: push_message(dont_throw=True, ...)
Except(t, rec, text, persist) ==
    StartPush(t, [rec EXCEPT !.ret = "done", !.exc = "done"],
              MakePush(rec.user_id, text, persist, TRUE))

\* --------------------------------------------------------- list_my_videos
\* Database.get_all_user_videos: the videos the user added
RECURSIVE UserVideosIn(_, _)
UserVideosIn(u, hs) ==
    IF hs = <<>> THEN <<>>
    ELSE IF Head(hs) \in DOMAIN videos /\ videos[Head(hs)] = u
         THEN <<Head(hs)>> \o UserVideosIn(u, Tail(hs))
         ELSE UserVideosIn(u, Tail(hs))

DbGetAllUserVideos(u) == UserVideosIn(u, <<"v1", "v2">>)

\* lines 74-78: get_user, then db.get_all_user_videos
ListMyVideos(sid) ==
    /\ CanHandle(sid)
    /\ task' = [task EXCEPT ![sid] =
                  [IdleTask EXCEPT !.kind = "list_my_videos", !.pc = "list_videos_emit",
                                   !.user_id = session[sid],
                                   !.snap = DbGetAllUserVideos(session[sid])]]
    /\ out' = NoOut
    /\ UNCHANGED <<registry, messages, store>>
    /\ UNCHANGED <<view, bridge, pipeline>>

\* lines 79-83: sio.emit('user_videos', {username, user_id, videos}, room=sid)
ListMyVideosEmit(sid) ==
    /\ task[sid].kind = "list_my_videos"
    /\ task[sid].pc = "list_videos_emit"
    /\ out' = EmitToSid(sid, "user_videos", sid, Len(task[sid].snap), task[sid].user_id)
    /\ task' = [task EXCEPT ![sid] = Return(task[sid])]
    /\ UNCHANGED <<registry, messages, store>>
    /\ UNCHANGED <<view, bridge, pipeline>>

\* ------------------------------------------------------------ open_video
\* lines 110-114: get_user, then db.get_video
OpenVideo(sid, h) ==
    /\ CanHandle(sid)
    /\ task' = [task EXCEPT ![sid] =
                  [IdleTask EXCEPT !.kind = "open_video", !.pc = "open_video_got",
                                   !.user_id = session[sid], !.video_hash = h,
                                   !.owner = DbGetVideo(h)]]
    /\ out' = NoOut
    /\ UNCHANGED <<registry, messages, store>>
    /\ UNCHANGED <<view, bridge, pipeline>>

\* variant of lines 115-123: the descriptor is emitted without sio.enter_room
OpenVideoGotNoJoin(sid) ==
    /\ task[sid].pc = "open_video_got"
    /\ LET rec == task[sid]
       IN  IF rec.owner = ""
           THEN /\ StartPush(sid, [rec EXCEPT !.ret = "done", !.exc = "open_video_except"],
                             MakePush(rec.user_id, "No such video.", FALSE, FALSE))
                /\ UNCHANGED <<registry, store>>
           ELSE LET o == EmitToSid(sid, "open_video", sid, 0, rec.video_hash)
                IN  /\ out' = o
                    /\ task' = [task EXCEPT ![sid] =
                                  Note([rec EXCEPT !.pc = "open_video_comments"], o)]
                    /\ UNCHANGED <<registry, messages, store>>
    /\ UNCHANGED <<view, bridge, pipeline>>

\* lines 115-123: no such video: push an error; else enter the room, emit open_video
OpenVideoGot(sid) ==
    /\ task[sid].pc = "open_video_got"
    /\ LET rec == task[sid]
       IN  IF rec.owner = ""
           THEN /\ StartPush(sid, [rec EXCEPT !.ret = "done", !.exc = "open_video_except"],
                             MakePush(rec.user_id, "No such video.", FALSE, FALSE))
                /\ UNCHANGED <<registry, store>>
           ELSE IF conn[sid] # "open"
           THEN /\ Except(sid, rec, "Failed to lookup video.", FALSE)
                /\ UNCHANGED <<registry, store>>
           ELSE LET o == EmitToSid(sid, "open_video", sid, 0, rec.video_hash)
                IN  /\ rooms' = [rooms EXCEPT ![sid] = @ \cup {rec.video_hash}]
                    /\ out' = o
                    /\ task' = [task EXCEPT ![sid] =
                                  Note([rec EXCEPT !.pc = "open_video_comments"], o)]
                    /\ UNCHANGED <<conn, session, userid_to_sid, messages, store>>
    /\ UNCHANGED <<view, bridge, pipeline>>

\* lines 128-133: the except block
OpenVideoExcept(sid) ==
    /\ task[sid].pc = "open_video_except"
    /\ Except(sid, task[sid], "Failed to lookup video.", FALSE)
    /\ UNCHANGED <<registry, store>>
    /\ UNCHANGED <<view, bridge, pipeline>>

\* line 124: db.get_video_comments, the snapshot the loop walks
OpenVideoComments(sid) ==
    /\ task[sid].pc = "open_video_comments"
    /\ LET snap == DbGetVideoComments(task[sid].video_hash)
       IN task' = [task EXCEPT ![sid] =
                     Goto([task[sid] EXCEPT !.snap = snap],
                          IF snap = <<>> THEN "done" ELSE "open_video_loop")]
    /\ out' = NoOut
    /\ UNCHANGED <<registry, messages, store>>
    /\ UNCHANGED <<view, bridge, pipeline>>

\* variant of lines 124-126: the loop walks the snapshot from its end
OpenVideoLoopNewestFirst(sid) ==
    /\ task[sid].pc = "open_video_loop"
    /\ LET rec == task[sid]
           n == Len(rec.snap)
       IN StartEmitNewComment(sid, [rec EXCEPT !.snap = SubSeq(@, 1, n - 1)],
                              rec.snap[n], sid,
                              IF n = 1 THEN "done" ELSE "open_video_loop")
    /\ UNCHANGED <<registry, messages, store>>
    /\ UNCHANGED <<bridge, pipeline>>

\* lines 124-126: the next comment of the snapshot goes to room=sid
OpenVideoLoop(sid) ==
    /\ task[sid].pc = "open_video_loop"
    /\ LET rec == task[sid]
       IN StartEmitNewComment(sid, [rec EXCEPT !.snap = Tail(@)], Head(rec.snap), sid,
                              IF Tail(rec.snap) = <<>> THEN "done"
                              ELSE "open_video_loop")
    /\ UNCHANGED <<registry, messages, store>>
    /\ UNCHANGED <<bridge, pipeline>>

\* ------------------------------------------------------------- del_video
\* lines 136-141: get_user, then db.get_video
DelVideo(sid, h) ==
    /\ CanHandle(sid)
    /\ task' = [task EXCEPT ![sid] =
                  [IdleTask EXCEPT !.kind = "del_video", !.pc = "del_video_got",
                                   !.user_id = session[sid], !.video_hash = h,
                                   !.owner = DbGetVideo(h)]]
    /\ out' = NoOut
    /\ UNCHANGED <<registry, messages, store>>
    /\ UNCHANGED <<view, bridge, pipeline>>

\* variant of lines 142-149: the video is deleted for any requester
DelVideoGotAnyone(sid) ==
    /\ task[sid].pc = "del_video_got"
    /\ LET rec == task[sid]
       IN  IF rec.owner = ""
           THEN /\ StartPush(sid, [rec EXCEPT !.ret = "done", !.exc = "del_video_except"],
                             MakePush(rec.user_id, "No such video. Cannot delete.",
                                      FALSE, FALSE))
                /\ UNCHANGED <<registry, store>>
           ELSE /\ videos' = DbDelVideo(rec.video_hash)
                /\ comments' = DbDelVideoComments(rec.video_hash)
                /\ task' = [task EXCEPT ![sid] = [rec EXCEPT !.pc = "del_video_confirm"]]
                /\ out' = NoOut
                /\ UNCHANGED <<registry, messages, nextId, files>>
    /\ UNCHANGED <<view, bridge, pipeline>>

\* lines 142-149: no such video: push an error; not the owner nor admin: the
\* assert raises; else db.del_video_and_comments
DelVideoGot(sid) ==
    /\ task[sid].pc = "del_video_got"
    /\ LET rec == task[sid]
       IN  IF rec.owner = ""
           THEN /\ StartPush(sid, [rec EXCEPT !.ret = "done", !.exc = "del_video_except"],
                             MakePush(rec.user_id, "No such video. Cannot delete.",
                                      FALSE, FALSE))
                /\ UNCHANGED <<registry, store>>
           ELSE IF rec.user_id \notin {rec.owner, Admin}
           THEN /\ Except(sid, rec, "Failed to delete video.", TRUE)
                /\ UNCHANGED <<registry, store>>
           ELSE /\ videos' = DbDelVideo(rec.video_hash)
                /\ comments' = DbDelVideoComments(rec.video_hash)
                /\ task' = [task EXCEPT ![sid] = [rec EXCEPT !.pc = "del_video_confirm"]]
                /\ out' = NoOut
                /\ UNCHANGED <<registry, messages, nextId, files>>
    /\ UNCHANGED <<view, bridge, pipeline>>

\* lines 150-154: push_message(persist=True, 'Video deleted.')
DelVideoConfirm(sid) ==
    /\ task[sid].pc = "del_video_confirm"
    /\ StartPush(sid, [task[sid] EXCEPT !.ret = "done", !.exc = "del_video_except"],
                 MakePush(task[sid].user_id, "Video deleted.", TRUE, FALSE))
    /\ UNCHANGED <<registry, store>>
    /\ UNCHANGED <<view, bridge, pipeline>>

\* lines 155-160: the except block, push_message(dont_throw=True, persist=True)
DelVideoExcept(sid) ==
    /\ task[sid].pc = "del_video_except"
    /\ Except(sid, task[sid], "Failed to delete video.", TRUE)
    /\ UNCHANGED <<registry, store>>
    /\ UNCHANGED <<view, bridge, pipeline>>

\* ----------------------------------------------------------- add_comment
\* add_comment handlers that have not stored their comment yet
AddsPending == {s \in Sids : task[s].kind = "add_comment" /\ task[s].c.id = 0}

\* lines 164-172: get_user, then db.get_video; the Comment is built from the
\* message as it is (lines 194-201: parent_id is taken unchecked)
AddComment(sid, h, parent, text, drawing) ==
    /\ CanHandle(sid)
    /\ nextId + Cardinality(AddsPending) <= MaxComments
    /\ task' = [task EXCEPT ![sid] =
                  [IdleTask EXCEPT !.kind = "add_comment", !.pc = "add_comment_got",
                                   !.user_id = session[sid], !.video_hash = h,
                                   !.owner = DbGetVideo(h),
                                   !.c = [NoComment EXCEPT !.video_hash = h,
                                                           !.parent_id = parent,
                                                           !.user_id = session[sid],
                                                           !.comment = text,
                                                           !.drawing = drawing]]]
    /\ out' = NoOut
    /\ UNCHANGED <<registry, messages, store>>
    /\ UNCHANGED <<view, bridge, pipeline>>

\* line 203: db.add_comment(c); the comment gets its id
AddCommentStoreOp(sid, rec) ==
    /\ comments' = DbAddComment(rec.c)
    /\ nextId' = nextId + 1
    /\ task' = [task EXCEPT ![sid] =
                  [rec EXCEPT !.pc = "add_comment_emit", !.c = [@ EXCEPT !.id = nextId]]]
    /\ out' = NoOut

\* lines 173-203: no such video: push an error and return; a drawing is written
\* to its file first; else the comment is stored
AddCommentGot(sid) ==
    /\ task[sid].pc = "add_comment_got"
    /\ LET rec == task[sid]
       IN  IF rec.owner = ""
           THEN /\ StartPush(sid, [rec EXCEPT !.ret = "done", !.exc = "add_comment_except"],
                             MakePush(rec.user_id, "No such video. Cannot comment.",
                                      FALSE, FALSE))
                /\ UNCHANGED <<registry, store>>
           ELSE IF rec.c.drawing # ""
           THEN /\ files' = files \cup {<<rec.video_hash, rec.c.drawing>>}
                /\ task' = [task EXCEPT ![sid] = [rec EXCEPT !.pc = "add_comment_store"]]
                /\ out' = NoOut
                /\ UNCHANGED <<registry, messages, videos, comments, nextId>>
           ELSE /\ AddCommentStoreOp(sid, rec)
                /\ UNCHANGED <<registry, messages, videos, files>>
    /\ UNCHANGED <<view, bridge, pipeline>>

\* lines 192-203: after the drawing was written, the comment is stored
AddCommentStore(sid) ==
    /\ task[sid].pc = "add_comment_store"
    /\ AddCommentStoreOp(sid, task[sid])
    /\ UNCHANGED <<registry, messages, videos, files>>
    /\ UNCHANGED <<view, bridge, pipeline>>

\* line 204: _emit_new_comment(c, room=video_hash)
AddCommentEmit(sid) ==
    /\ task[sid].pc = "add_comment_emit"
    /\ StartEmitNewComment(sid, task[sid], task[sid].c, 0, "done")
    /\ UNCHANGED <<registry, messages, store>>
    /\ UNCHANGED <<bridge, pipeline>>

\* lines 206-211: the except block
AddCommentExcept(sid) ==
    /\ task[sid].pc = "add_comment_except"
    /\ Except(sid, task[sid], "Failed to add comment.", FALSE)
    /\ UNCHANGED <<registry, store>>
    /\ UNCHANGED <<view, bridge, pipeline>>

\* ---------------------------------------------------------- edit_comment
\* lines 214-223: get_user, then db.get_comment
EditComment(sid, id, text) ==
    /\ CanHandle(sid)
    /\ task' = [task EXCEPT ![sid] =
                  [IdleTask EXCEPT !.kind = "edit_comment", !.pc = "edit_comment_got",
                                   !.user_id = session[sid], !.comment_id = id,
                                   !.text = text, !.c = DbGetComment(id)]]
    /\ out' = NoOut
    /\ UNCHANGED <<registry, messages, store>>
    /\ UNCHANGED <<view, bridge, pipeline>>

\* lines 224-227: old is None or not the caller's: raises; else db.edit_comment
EditCommentGot(sid) ==
    /\ task[sid].pc = "edit_comment_got"
    /\ LET rec == task[sid]
           old == rec.c
       IN  IF old = NoComment \/ rec.user_id \notin {old.user_id, Admin}
           THEN /\ Except(sid, rec, "Failed to edit comment.", FALSE)
                /\ UNCHANGED <<registry, store>>
           ELSE /\ comments' = DbEditComment(rec.comment_id, rec.text)
                /\ task' = [task EXCEPT ![sid] =
                              [rec EXCEPT !.pc = "edit_comment_del",
                                          !.video_hash = old.video_hash,
                                          !.c = NoComment]]
                /\ out' = NoOut
                /\ UNCHANGED <<registry, messages, videos, nextId, files>>
    /\ UNCHANGED <<view, bridge, pipeline>>

\* line 229: sio.emit('del_comment', {'comment_id': comment_id}, room=video_hash)
EditCommentDel(sid) ==
    /\ task[sid].pc = "edit_comment_del"
    /\ LET rec == task[sid]
           o == EmitToRoom(sid, "del_comment", rec.video_hash, rec.comment_id, "")
       IN  /\ out' = o
           /\ task' = [task EXCEPT ![sid] = Note([rec EXCEPT !.pc = "edit_comment_reget"], o)]
    /\ UNCHANGED <<registry, messages, store>>
    /\ UNCHANGED <<view, bridge, pipeline>>

\* line 230: c = db.get_comment(comment_id)
EditCommentReget(sid) ==
    /\ task[sid].pc = "edit_comment_reget"
    /\ task' = [task EXCEPT ![sid] =
                  [task[sid] EXCEPT !.pc = "edit_comment_emit",
                                    !.c = DbGetComment(task[sid].comment_id)]]
    /\ out' = NoOut
    /\ UNCHANGED <<registry, messages, store>>
    /\ UNCHANGED <<view, bridge, pipeline>>

\* line 231: _emit_new_comment(c, room=video_hash); c.to_dict() raises on None
EditCommentEmit(sid) ==
    /\ task[sid].pc = "edit_comment_emit"
    /\ LET rec == task[sid]
       IN  IF rec.c = NoComment
           THEN /\ Except(sid, rec, "Failed to edit comment.", FALSE)
                /\ UNCHANGED view
           ELSE /\ StartEmitNewComment(sid, rec, rec.c, 0, "done")
                /\ UNCHANGED messages
    /\ UNCHANGED <<registry, store>>
    /\ UNCHANGED <<bridge, pipeline>>

\* ----------------------------------------------------------- del_comment
\* lines 242-250: get_user, then db.get_comment
DelComment(sid, id) ==
    /\ CanHandle(sid)
    /\ task' = [task EXCEPT ![sid] =
                  [IdleTask EXCEPT !.kind = "del_comment", !.pc = "del_comment_got",
                                   !.user_id = session[sid], !.comment_id = id,
                                   !.c = DbGetComment(id)]]
    /\ out' = NoOut
    /\ UNCHANGED <<registry, messages, store>>
    /\ UNCHANGED <<view, bridge, pipeline>>

\* lines 251-254: old is None or not the caller's: raises; else
\* db.get_video_comments(video_hash)
DelCommentGot(sid) ==
    /\ task[sid].pc = "del_comment_got"
    /\ LET rec == task[sid]
           old == rec.c
       IN  IF old = NoComment \/ rec.user_id \notin {old.user_id, Admin}
           THEN Except(sid, rec, "Failed to delete comment.", FALSE)
           ELSE /\ task' = [task EXCEPT ![sid] =
                              [rec EXCEPT !.pc = "del_comment_check",
                                          !.video_hash = old.video_hash,
                                          !.c = NoComment,
                                          !.snap = DbGetVideoComments(old.video_hash)]]
                /\ out' = NoOut
                /\ UNCHANGED messages
    /\ UNCHANGED <<registry, store>>
    /\ UNCHANGED <<view, bridge, pipeline>>

\* lines 255-259: a comment of the snapshot has this parent: raises; else
\* db.del_comment
DelCommentCheck(sid) ==
    /\ task[sid].pc = "del_comment_check"
    /\ LET rec == task[sid]
       IN  IF \E k \in 1..Len(rec.snap) : rec.snap[k].parent_id = rec.comment_id
           THEN /\ Except(sid, [rec EXCEPT !.snap = <<>>], "Failed to delete comment.",
                          FALSE)
                /\ UNCHANGED <<registry, store>>
           ELSE /\ comments' = DbDelComment(rec.comment_id)
                /\ task' = [task EXCEPT ![sid] =
                              [rec EXCEPT !.pc = "del_comment_emit", !.snap = <<>>]]
                /\ out' = NoOut
                /\ UNCHANGED <<registry, messages, videos, nextId, files>>
    /\ UNCHANGED <<view, bridge, pipeline>>

\* line 260: sio.emit('del_comment', {'comment_id': comment_id}, room=video_hash)
DelCommentEmit(sid) ==
    /\ task[sid].pc = "del_comment_emit"
    /\ out' = EmitToRoom(sid, "del_comment", task[sid].video_hash,
                         task[sid].comment_id, "")
    /\ task' = [task EXCEPT ![sid] = Return(task[sid])]
    /\ UNCHANGED <<registry, messages, store>>
    /\ UNCHANGED <<view, bridge, pipeline>>

\* ------------------------------------------------------- main.py: go()
\* the worker (video_processor.py) is not part of the source tree: it is modelled
\* from the design document as a thread that deposits one result per processed
\* file while it is alive, and that stops, on its own or after it saw the flag

\* Python's while condition of line 136: the flag is not set and the thread is alive
WorkerRunning == ~vp_interrupt_flag /\ vp_thread = "alive"

\* task.done(): the task returned, raised or was cancelled
ApiDone == task_api \in {"failed", "cancelled"}
MsgDone == task_msg \in {"returned", "failed", "cancelled"}

\* the worker puts the result of one file into vp_result_queue
WorkerDeposit(u, h, ok) ==
    /\ vp_thread = "alive"
    /\ hist.deposited < MaxResults
    /\ vp_result_queue' = Append(vp_result_queue,
                                 [orig_file |-> hist.deposited + 1, file_owner_id |-> u,
                                  video_hash |-> h, success |-> ok])
    /\ hist' = [hist EXCEPT !.deposited = @ + 1]
    /\ UNCHANGED <<vp_thread, vp_interrupt_flag, push_message_queue, task_go,
                   task_api, task_msg>>
    /\ UNCHANGED <<server, pipeline>>

\* the worker thread ends: "died" while the flag is not set, "stopped" after
WorkerStop ==
    /\ vp_thread = "alive"
    /\ vp_thread' = IF vp_interrupt_flag THEN "stopped" ELSE "died"
    /\ UNCHANGED <<vp_interrupt_flag, vp_result_queue, push_message_queue, task_go,
                   task_api, task_msg, hist>>
    /\ UNCHANGED <<server, pipeline>>

\* lines 124-133: run_api_server calls api_server.run_server without videos_dir
\* and upload_dir, parameters that have no default (api_server.py lines 430-440):
\* the call raises TypeError and the task is done
ApiStart ==
    /\ task_go = "loop"
    /\ task_api = "start"
    /\ task_api' = "failed"
    /\ UNCHANGED <<vp_thread, vp_interrupt_flag, vp_result_queue, push_message_queue,
                   task_go, task_msg, hist>>
    /\ UNCHANGED <<server, pipeline>>

\* line 136: the loop goes on to the sleep of line 137, or the coroutine returns
BridgeLoop == IF WorkerRunning THEN "sleep" ELSE "returned"

\* lines 135-137: the first step of vp_result_deliverer
BridgeStart ==
    /\ task_go = "loop"
    /\ task_msg = "start"
    /\ task_msg' = BridgeLoop
    /\ UNCHANGED <<vp_thread, vp_interrupt_flag, vp_result_queue, push_message_queue,
                   task_go, task_api, hist>>
    /\ UNCHANGED <<server, pipeline>>

\* variant of lines 138-139: the poll takes the newest result of the queue
BridgePollNewest ==
    /\ task_go = "loop"
    /\ task_msg = "sleep"
    /\ IF vp_result_queue # <<>>
       THEN /\ vp_result_queue' = SubSeq(vp_result_queue, 1, Len(vp_result_queue) - 1)
            /\ hist' = [hist EXCEPT !.taken =
                           Append(@, vp_result_queue[Len(vp_result_queue)])]
            /\ task_msg' = "failed"
       ELSE /\ task_msg' = BridgeLoop
            /\ UNCHANGED <<vp_result_queue, hist>>
    /\ UNCHANGED <<vp_thread, vp_interrupt_flag, push_message_queue, task_go, task_api>>
    /\ UNCHANGED <<server, pipeline>>

\* lines 137-147: after the sleep, one poll: if the queue is not empty, one result
\* is taken (line 139), and building its message raises AttributeError, because
\* api_server has no attribute CustomUserMessage (line 140): nothing is put into
\* push_message_queue and the task is done; with an empty queue the loop goes on
BridgePoll ==
    /\ task_go = "loop"
    /\ task_msg = "sleep"
    /\ IF vp_result_queue # <<>>
       THEN /\ vp_result_queue' = Tail(vp_result_queue)
            /\ hist' = [hist EXCEPT !.taken = Append(@, Head(vp_result_queue))]
            /\ task_msg' = "failed"
       ELSE /\ task_msg' = BridgeLoop
            /\ UNCHANGED <<vp_result_queue, hist>>
    /\ UNCHANGED <<vp_thread, vp_interrupt_flag, push_message_queue, task_go, task_api>>
    /\ UNCHANGED <<server, pipeline>>

\* lines 155-158: the first conjunct of the while condition that is false, if any
LoopEnds ==
    IF vp_thread # "alive" THEN "worker"
    ELSE IF vp_interrupt_flag THEN "flag"
    ELSE IF ApiDone THEN "api"
    ELSE IF MsgDone THEN "msg"
    ELSE ""

\* lines 155-164: the while condition is false: finally sets the flag, and go()
\* goes on to vp_thread.join()
GoLoopExit ==
    /\ task_go = "loop"
    /\ LoopEnds # ""
    /\ task_go' = "join"
    /\ vp_interrupt_flag' = TRUE
    /\ hist' = [hist EXCEPT !.why = LoopEnds]
    /\ UNCHANGED <<vp_thread, vp_result_queue, push_message_queue, task_api, task_msg>>
    /\ UNCHANGED <<server, pipeline>>

\* lines 159-164: the sleep is interrupted (Ctrl-C); finally sets the flag
GoInterrupt ==
    /\ task_go = "loop"
    /\ task_go' = "join"
    /\ vp_interrupt_flag' = TRUE
    /\ hist' = [hist EXCEPT !.why = "interrupt"]
    /\ UNCHANGED <<vp_thread, vp_result_queue, push_message_queue, task_api, task_msg>>
    /\ UNCHANGED <<server, pipeline>>

\* lines 165-169: vp_thread.join() returns once the thread has ended (no task runs
\* meanwhile: join blocks the event loop); go() returns and asyncio.run cancels
\* the tasks that are not done
GoJoin ==
    /\ task_go = "join"
    /\ vp_thread # "alive"
    /\ task_go' = "stopped"
    /\ task_api' = IF ApiDone THEN task_api ELSE "cancelled"
    /\ task_msg' = IF MsgDone THEN task_msg ELSE "cancelled"
    /\ UNCHANGED <<vp_thread, vp_interrupt_flag, vp_result_queue, push_message_queue,
                   hist>>
    /\ UNCHANGED <<server, pipeline>>

\* lines 110-154: the flag and the queues are created, the worker thread is
\* started, the two tasks are created
InitMain ==
    /\ vp_thread = "alive"
    /\ vp_interrupt_flag = FALSE
    /\ vp_result_queue = <<>>
    /\ push_message_queue = <<>>
    /\ task_go = "loop"
    /\ task_api = "start"
    /\ task_msg = "start"
    /\ hist = [deposited |-> 0, taken |-> <<>>, why |-> ""]

\* ------------------------------------------------------ post_upload_file
\* A file name is the sequence of its path segments and "/" separators; a chunk
\* of the inbound stream is its number, and None is 0.
Filenames ==
    {<<"f">>, <<"d", "/", "f">>, <<"/", "f">>, <<"f", "/">>, <<"..">>, <<".">>}

\* the filename has a separator, that is a directory part
HasPath(filename) == \E k \in 1..Len(filename) : filename[k] = "/"

\* pathlib: the segments of a path; separators and "." segments are dropped
RECURSIVE PathParts(_)
PathParts(filename) ==
    IF filename = <<>> THEN <<>>
    ELSE IF Head(filename) \in {"/", "."} THEN PathParts(Tail(filename))
         ELSE <<Head(filename)>> \o PathParts(Tail(filename))

\* Path(filename).name: the last segment, or the empty string
PathName(filename) ==
    LET parts == PathParts(filename)
    IN  IF parts = <<>> THEN <<>> ELSE <<parts[Len(parts)]>>

\* variant of line 330: every filename passes
AnyFilenameOk(filename) == TRUE

\* line 330: str(Path(filename).name) == filename
FilenameOk(filename) == PathName(filename) = filename

\* user_from_headers, lines 418-422: no user id in the headers: 'anonymous'
UserFromHeaders(h) == IF h = "" THEN "anonymous" ELSE h

NoStage == [pc |-> "idle", c |-> 0, n |-> 0]

NoRequest ==
    [pc |-> "idle", user_id |-> "", fields |-> <<>>, filename |-> <<>>,
     total |-> 0, callback |-> FALSE, response |-> ""]

\* no upload request has arrived
NoUpload ==
    /\ upload = NoRequest
    /\ inq = <<>>
    /\ reader = NoStage
    /\ writer = NoStage
    /\ disk = [dir |-> FALSE, file |-> "none", written |-> <<>>]
    /\ ingested = <<>>

\* the handler ends: it returns the response, or raises
Respond(rec, response) == [rec EXCEPT !.pc = "ended", !.response = response]

\* lines 317-325: a request arrives, with its multipart fields and with total
\* chunks in the stream of its file; the handler awaits request.multipart()
PostUploadFile(h, fields, total, callback) ==
    /\ upload.pc = "idle"
    /\ upload' = [NoRequest EXCEPT !.pc = "field", !.user_id = UserFromHeaders(h),
                                   !.fields = fields, !.total = total,
                                   !.callback = callback]
    /\ UNCHANGED <<inq, reader, writer, disk, ingested>>
    /\ UNCHANGED <<server, bridge>>

\* lines 325-338 and 366: the first field of the request: no field at all: the
\* handler returns None; not 'fileupload': 400; a filename that is not its own
\* basename: the assert raises; else the directory is made (PermissionError:
\* 500) and the handler awaits aiofiles.open
UploadField ==
    /\ upload.pc = "field"
    /\ IF upload.fields = <<>>
       THEN /\ upload' = Respond(upload, "None")
            /\ UNCHANGED disk
       ELSE LET field == Head(upload.fields)
                rec == [upload EXCEPT !.fields = Tail(@)]
            IN  IF field.name # "fileupload"
                THEN /\ upload' = Respond(rec, "400 No fileupload field in POST")
                     /\ UNCHANGED disk
                ELSE IF ~FilenameOk(field.filename)
                THEN /\ upload' = Respond([rec EXCEPT !.filename = field.filename],
                                          "AssertionError")
                     /\ UNCHANGED disk
                ELSE \/ /\ upload' = [rec EXCEPT !.filename = field.filename,
                                                 !.pc = "open"]
                        /\ disk' = [disk EXCEPT !.dir = TRUE]
                     \/ /\ upload' = Respond([rec EXCEPT !.filename = field.filename],
                                             "500 Permission error saving upload")
                        /\ UNCHANGED disk
    /\ UNCHANGED <<inq, reader, writer, ingested>>
    /\ UNCHANGED <<server, bridge>>

\* lines 338-349: aiofiles.open creates the file (dst names a directory:
\* IsADirectoryError; PermissionError: 500); the queue and the two stages are
\* made and the handler awaits asyncio.gather
UploadOpen ==
    /\ upload.pc = "open"
    /\ \/ /\ upload.filename = <<"..">>
          /\ upload' = Respond(upload, "IsADirectoryError")
          /\ UNCHANGED <<reader, writer, disk>>
       \/ /\ upload' = Respond(upload, "500 Permission error saving upload")
          /\ UNCHANGED <<reader, writer, disk>>
       \/ /\ upload.filename # <<"..">>
          /\ upload' = [upload EXCEPT !.pc = "gather"]
          /\ disk' = [disk EXCEPT !.file = "open"]
          /\ reader' = [NoStage EXCEPT !.pc = "read"]
          /\ writer' = [NoStage EXCEPT !.pc = "get"]
    /\ UNCHANGED <<inq, ingested>>
    /\ UNCHANGED <<server, bridge>>

\* variant of line 339: a queue without a bound
NeverFull == FALSE

\* line 339, asyncio.Queue(8): put suspends while the queue holds 8 items
Full == Len(inq) >= QueueSize

\* variant of lines 342-343: an item that finds the queue full is dropped
ReaderPutOpDrops(c, n) ==
    /\ reader' = [pc |-> IF c = 0 THEN "done" ELSE "read", c |-> 0, n |-> n]
    /\ IF Full THEN UNCHANGED inq ELSE inq' = Append(inq, c)

\* lines 342-343: inq.put(c): the item is queued at once if there is room, else
\* the reader is suspended in put, holding the item
ReaderPutOp(c, n) ==
    IF Full
    THEN /\ reader' = [pc |-> "put", c |-> c, n |-> n]
         /\ UNCHANGED inq
    ELSE /\ inq' = Append(inq, c)
         /\ reader' = [pc |-> IF c = 0 THEN "done" ELSE "read", c |-> 0, n |-> n]

\* lines 341-343: field.read_chunk() returns the next chunk, or the empty chunk
\* at the end of the stream, after which None is put; or it raises
ReaderRead ==
    /\ reader.pc = "read"
    /\ \/ /\ reader.n < upload.total
          /\ ReaderPutOp(reader.n + 1, reader.n + 1)
       \/ /\ reader.n = upload.total
          /\ ReaderPutOp(0, reader.n)
       \/ /\ reader' = [reader EXCEPT !.pc = "failed"]
          /\ UNCHANGED inq
    /\ UNCHANGED <<upload, writer, disk, ingested>>
    /\ UNCHANGED <<server, bridge>>

\* lines 342-343: the reader suspended in put resumes when there is room
ReaderPut ==
    /\ reader.pc = "put"
    /\ ~Full
    /\ ReaderPutOp(reader.c, reader.n)
    /\ UNCHANGED <<upload, writer, disk, ingested>>
    /\ UNCHANGED <<server, bridge>>

\* line 345: inq.get() with an item queued: None ends the writer, a chunk goes
\* to outf.write
WriterTake ==
    /\ inq' = Tail(inq)
    /\ writer' = IF Head(inq) = 0 THEN [writer EXCEPT !.pc = "done", !.c = 0]
                 ELSE [writer EXCEPT !.pc = "write", !.c = Head(inq)]

\* line 345: the writer suspended in get resumes when an item is queued
WriterGet ==
    /\ writer.pc = "get"
    /\ inq # <<>>
    /\ WriterTake
    /\ UNCHANGED <<upload, reader, disk, ingested>>
    /\ UNCHANGED <<server, bridge>>

\* lines 345-346: outf.write(c) completes and the writer gets the next item, or
\* is suspended in get; or the write raises, as it does on a closed file
WriterWrite ==
    /\ writer.pc = "write"
    /\ \/ /\ disk.file = "open"
          /\ disk' = [disk EXCEPT !.written = Append(@, writer.c)]
          /\ IF inq # <<>> THEN WriterTake
             ELSE /\ writer' = [writer EXCEPT !.pc = "get", !.c = 0]
                  /\ UNCHANGED inq
       \/ /\ writer' = [writer EXCEPT !.pc = "failed"]
          /\ UNCHANGED <<inq, disk>>
    /\ UNCHANGED <<upload, reader, ingested>>
    /\ UNCHANGED <<server, bridge>>

\* lines 361-362: if self.ingest_callback: self.ingest_callback(dst, user_id)
IngestOp(rec) ==
    IF rec.callback
    THEN Append(ingested, [dst |-> PathName(rec.filename), user_id |-> rec.user_id])
    ELSE ingested

\* variant of lines 349-364: the handler goes on to the callback whatever
\* became of the stages
UploadGatherIngestsAnyway ==
    /\ upload.pc = "gather"
    /\ \/ reader.pc = "done" /\ writer.pc = "done"
       \/ reader.pc = "failed" \/ writer.pc = "failed"
    /\ disk' = [disk EXCEPT !.file = "closed"]
    /\ ingested' = IngestOp(upload)
    /\ upload' = Respond(upload, "200 Upload OK")
    /\ UNCHANGED <<inq, reader, writer>>
    /\ UNCHANGED <<server, bridge>>

\* lines 349-364: gather returns when both stages are done: the file is closed,
\* the callback is called, 200.  gather raises when a stage has raised: it
\* cancels nothing; in the except block the first t.cancel() raises
\* AttributeError, because tasks holds coroutine objects, which have no cancel;
\* the file is closed and AttributeError leaves the handler
UploadGather ==
    /\ upload.pc = "gather"
    /\ \/ /\ reader.pc = "done" /\ writer.pc = "done"
          /\ ingested' = IngestOp(upload)
          /\ upload' = Respond(upload, "200 Upload OK")
       \/ /\ reader.pc = "failed" \/ writer.pc = "failed"
          /\ upload' = Respond(upload, "AttributeError")
          /\ UNCHANGED ingested
    /\ disk' = [disk EXCEPT !.file = "closed"]
    /\ UNCHANGED <<inq, reader, writer>>
    /\ UNCHANGED <<server, bridge>>

\* ---------------------------------------------------------------- spec
Init ==
    /\ conn = [s \in Sids |-> "free"]
    /\ session = [s \in Sids |-> ""]
    /\ userid_to_sid = <<>>
    /\ rooms = [s \in Sids |-> {}]
    /\ messages = <<>>
    /\ videos = [h \in {"v1"} |-> "u1"]
    /\ comments = <<[NoComment EXCEPT !.id = 1, !.video_hash = "v1", !.user_id = "u1",
                                      !.comment = "a"]>>
    /\ nextId = 2
    /\ files = {}
    /\ task = [t \in TaskIds |-> IdleTask]
    /\ out = NoOut
    /\ view = [s \in Sids |-> <<>>]
    /\ InitMain
    /\ NoUpload

Next ==
    \/ \E sid \in Sids, u \in Users : Connect(sid, u)
    \/ \E sid \in Sids : ConnectEnter(sid)
    \/ \E sid \in Sids : Disconnect(sid)
    \/ \E sid \in Sids : ListMyMessages(sid)
    \/ \E sid \in Sids : ListEmit(sid)
    \/ \E sid \in Sids : ListSeen(sid)
    \/ \E u \in {"u1"} : PushCall(u, TRUE, TRUE)
    \/ \E t \in TaskIds : PushEmit(t)

\* the push_message contract under every caller and the registry
NextPush ==
    \/ \E sid \in Sids, u \in Users : Connect(sid, u)
    \/ \E sid \in Sids : ConnectEnter(sid)
    \/ \E sid \in Sids : Disconnect(sid)
    \/ \E u \in Users, persist \in BOOLEAN, dont_throw \in BOOLEAN :
          PushCall(u, persist, dont_throw)
    \/ \E t \in TaskIds : PushEmit(t)

\* the registry and its rooms
NextRooms ==
    \/ \E sid \in Sids, u \in Users : Connect(sid, u)
    \/ \E sid \in Sids : ConnectEnter(sid)
    \/ \E sid \in Sids : Disconnect(sid)
    \/ \E sid \in Sids, h \in Hashes : OpenVideo(sid, h)
    \/ \E sid \in Sids : OpenVideoGot(sid)
    \/ \E sid \in Sids : OpenVideoExcept(sid)
    \/ \E sid \in Sids : OpenVideoComments(sid)
    \/ \E sid \in Sids : OpenVideoLoop(sid)

\* two clients that have connected and opened video v1: its owner u1 and admin
InitComments ==
    /\ conn = [s \in Sids |-> IF s <= 2 THEN "open" ELSE "free"]
    /\ session = [s \in Sids |-> IF s = 1 THEN "u1" ELSE IF s = 2 THEN Admin ELSE ""]
    /\ userid_to_sid = Put(Put(<<>>, "u1", 1), Admin, 2)
    /\ rooms = [s \in Sids |-> IF s <= 2 THEN {Lobby, "v1"} ELSE {}]
    /\ messages = <<>>
    /\ videos = [h \in Hashes |-> IF h = "v1" THEN "u1" ELSE "u2"]
    /\ comments = <<[NoComment EXCEPT !.id = 1, !.video_hash = "v1", !.user_id = "u1",
                                      !.comment = "a"]>>
    /\ nextId = 2
    /\ files = {}
    /\ task = [t \in TaskIds |-> IdleTask]
    /\ out = NoOut
    /\ view = [s \in Sids |-> <<>>]
    /\ InitMain
    /\ NoUpload

\* the comment handlers and del_video of the two clients, interleaved at their
\* awaits (comments without drawings; video v1 is the one that gets deleted)
NextComments ==
    \/ \E sid \in Sids, h \in Hashes, parent \in 0..MaxComments :
          AddComment(sid, h, parent, "a", "")
    \/ \E sid \in Sids : AddCommentGot(sid)
    \/ \E sid \in Sids : AddCommentEmit(sid)
    \/ \E sid \in Sids : AddCommentExcept(sid)
    \/ \E sid \in Sids, id \in 1..MaxComments, text \in Texts : EditComment(sid, id, text)
    \/ \E sid \in Sids : EditCommentGot(sid)
    \/ \E sid \in Sids : EditCommentDel(sid)
    \/ \E sid \in Sids : EditCommentReget(sid)
    \/ \E sid \in Sids : EditCommentEmit(sid)
    \/ \E sid \in Sids, id \in 1..MaxComments : DelComment(sid, id)
    \/ \E sid \in Sids : DelCommentGot(sid)
    \/ \E sid \in Sids : DelCommentCheck(sid)
    \/ \E sid \in Sids : DelCommentEmit(sid)
    \/ \E sid \in Sids : DelVideo(sid, "v1")
    \/ \E sid \in Sids : DelVideoGot(sid)
    \/ \E sid \in Sids : DelVideoConfirm(sid)
    \/ \E sid \in Sids : DelVideoExcept(sid)
    \/ \E t \in TaskIds : PushEmit(t)

\* two connected clients, u1 and admin, and a storage that holds up to
\* MaxComments comments, with and without drawings, whose files exist or not
InitOpen ==
    /\ conn = [s \in Sids |-> IF s <= 2 THEN "open" ELSE "free"]
    /\ session = [s \in Sids |-> IF s = 1 THEN "u1" ELSE IF s = 2 THEN Admin ELSE ""]
    /\ userid_to_sid = Put(Put(<<>>, "u1", 1), Admin, 2)
    /\ rooms = [s \in Sids |-> IF s <= 2 THEN {Lobby} ELSE {}]
    /\ messages = <<>>
    /\ \E vs \in {{"v1"}, Hashes} :
         /\ videos = [h \in vs |-> IF h = "v1" THEN "u1" ELSE "u2"]
         /\ \E n \in 0..MaxComments :
              \E hs \in [1..n -> vs], ds \in [1..n -> Drawings] :
                 /\ comments = [k \in 1..n |->
                                  [NoComment EXCEPT !.id = k, !.video_hash = hs[k],
                                                    !.user_id = "u1", !.comment = "a",
                                                    !.drawing = ds[k]]]
                 /\ nextId = n + 1
    /\ files \in {{}, {<<h, "d1">> : h \in Hashes}}
    /\ task = [t \in TaskIds |-> IdleTask]
    /\ out = NoOut
    /\ view = [s \in Sids |-> <<>>]
    /\ InitMain
    /\ NoUpload

\* u1 opens videos while admin adds and deletes comments
NextOpen ==
    \/ \E sid \in Sids, h \in Hashes : session[sid] = "u1" /\ OpenVideo(sid, h)
    \/ \E sid \in Sids : OpenVideoGot(sid)
    \/ \E sid \in Sids : OpenVideoExcept(sid)
    \/ \E sid \in Sids : OpenVideoComments(sid)
    \/ \E sid \in Sids : OpenVideoLoop(sid)
    \/ \E t \in TaskIds : NewCommentEmit(t)
    \/ \E sid \in Sids, h \in Hashes, drawing \in Drawings :
          session[sid] = Admin /\ AddComment(sid, h, 0, "a", drawing)
    \/ \E sid \in Sids : AddCommentGot(sid)
    \/ \E sid \in Sids : AddCommentStore(sid)
    \/ \E sid \in Sids : AddCommentEmit(sid)
    \/ \E sid \in Sids : AddCommentExcept(sid)
    \/ \E sid \in Sids, id \in 1..MaxComments : session[sid] = Admin /\ DelComment(sid, id)
    \/ \E sid \in Sids : DelCommentGot(sid)
    \/ \E sid \in Sids : DelCommentCheck(sid)
    \/ \E sid \in Sids : DelCommentEmit(sid)

\* two connected clients, u2 and admin; u2 owns video v2 and comment 2, u1 owns
\* video v1 and comment 1
InitAuth ==
    /\ conn = [s \in Sids |-> IF s <= 2 THEN "open" ELSE "free"]
    /\ session = [s \in Sids |-> IF s = 1 THEN "u2" ELSE IF s = 2 THEN Admin ELSE ""]
    /\ userid_to_sid = Put(Put(<<>>, "u2", 1), Admin, 2)
    /\ rooms = [s \in Sids |-> IF s <= 2 THEN {Lobby, "v1"} ELSE {}]
    /\ messages = <<>>
    /\ videos = [h \in Hashes |-> IF h = "v1" THEN "u1" ELSE "u2"]
    /\ comments = <<[NoComment EXCEPT !.id = 1, !.video_hash = "v1", !.user_id = "u1",
                                      !.comment = "a"],
                    [NoComment EXCEPT !.id = 2, !.video_hash = "v1", !.user_id = "u2",
                                      !.comment = "a"]>>
    /\ nextId = 3
    /\ files = {}
    /\ task = [t \in TaskIds |-> IdleTask]
    /\ out = NoOut
    /\ view = [s \in Sids |-> <<>>]
    /\ InitMain
    /\ NoUpload

\* the handlers that check the requester: del_video, edit_comment, del_comment,
\* called for the videos and for the comments in storage
NextAuth ==
    \/ \E sid \in Sids, h \in Hashes : DelVideo(sid, h)
    \/ \E sid \in Sids : DelVideoGot(sid)
    \/ \E sid \in Sids : DelVideoConfirm(sid)
    \/ \E sid \in Sids : DelVideoExcept(sid)
    \/ \E sid \in Sids, id \in CommentIds(comments) : EditComment(sid, id, "b")
    \/ \E sid \in Sids : EditCommentGot(sid)
    \/ \E sid \in Sids : EditCommentDel(sid)
    \/ \E sid \in Sids : EditCommentReget(sid)
    \/ \E sid \in Sids : EditCommentEmit(sid)
    \/ \E sid \in Sids, id \in CommentIds(comments) : DelComment(sid, id)
    \/ \E sid \in Sids : DelCommentGot(sid)
    \/ \E sid \in Sids : DelCommentCheck(sid)
    \/ \E sid \in Sids : DelCommentEmit(sid)
    \/ \E t \in TaskIds : PushEmit(t)

\* go() of main.py: the worker thread, the two tasks and the supervision loop
InitBridge ==
    /\ conn = [s \in Sids |-> "free"]
    /\ session = [s \in Sids |-> ""]
    /\ userid_to_sid = <<>>
    /\ rooms = [s \in Sids |-> {}]
    /\ messages = <<>>
    /\ videos = <<>>
    /\ comments = <<>>
    /\ nextId = 1
    /\ files = {}
    /\ task = [t \in TaskIds |-> IdleTask]
    /\ out = NoOut
    /\ view = [s \in Sids |-> <<>>]
    /\ InitMain
    /\ NoUpload

NextBridge ==
    \/ \E u \in Users, h \in {"v1"}, ok \in BOOLEAN : WorkerDeposit(u, h, ok)
    \/ WorkerStop
    \/ ApiStart
    \/ BridgeStart
    \/ BridgePoll
    \/ GoLoopExit
    \/ GoInterrupt
    \/ GoJoin

\* one upload request, with one or two fields, from its arrival to its response
\* and to the end of its stages
FieldLists ==
    {<<>>, <<[name |-> "other", filename |-> <<>>]>>,
     <<[name |-> "other", filename |-> <<>>],
       [name |-> "fileupload", filename |-> <<"f">>]>>}
       \cup {<<[name |-> "fileupload", filename |-> fn]>> : fn \in Filenames}

InitUpload ==
    /\ conn = [s \in Sids |-> "free"]
    /\ session = [s \in Sids |-> ""]
    /\ userid_to_sid = <<>>
    /\ rooms = [s \in Sids |-> {}]
    /\ messages = <<>>
    /\ videos = <<>>
    /\ comments = <<>>
    /\ nextId = 1
    /\ files = {}
    /\ task = [t \in TaskIds |-> IdleTask]
    /\ out = NoOut
    /\ view = [s \in Sids |-> <<>>]
    /\ InitMain
    /\ NoUpload

NextUpload ==
    \/ \E h \in {"", "u1"}, fields \in FieldLists, total \in 0..MaxChunks,
          callback \in BOOLEAN : PostUploadFile(h, fields, total, callback)
    \/ UploadField
    \/ UploadOpen
    \/ ReaderRead
    \/ ReaderPut
    \/ WriterGet
    \/ WriterWrite
    \/ UploadGather

\* two connected clients, u1 and admin, in no room of a video yet; u1 has a stored
\* message, and video v1 has one comment
InitIsolation ==
    /\ conn = [s \in Sids |-> IF s <= 2 THEN "open" ELSE "free"]
    /\ session = [s \in Sids |-> IF s = 1 THEN "u1" ELSE IF s = 2 THEN Admin ELSE ""]
    /\ userid_to_sid = Put(Put(<<>>, "u1", 1), Admin, 2)
    /\ rooms = [s \in Sids |-> IF s <= 2 THEN {Lobby} ELSE {}]
    /\ messages = <<[user_id |-> "u1", text |-> "info", seen |-> FALSE, got |-> FALSE,
                      offline |-> TRUE]>>
    /\ videos = [h \in Hashes |-> IF h = "v1" THEN "u1" ELSE "u2"]
    /\ comments = <<[NoComment EXCEPT !.id = 1, !.video_hash = "v1", !.user_id = "u1",
                                      !.comment = "a"]>>
    /\ nextId = 2
    /\ files = {}
    /\ task = [t \in TaskIds |-> IdleTask]
    /\ out = NoOut
    /\ view = [s \in Sids |-> <<>>]
    /\ InitMain
    /\ NoUpload

\* u1 opens videos, lists its videos and its messages and may disconnect, while
\* admin opens video v1 and adds, edits and deletes comments of it
NextIsolation ==
    \/ \E sid \in Sids : session[sid] = "u1" /\ Disconnect(sid)
    \/ \E sid \in Sids, h \in Hashes :
          (session[sid] = Admin => h = "v1") /\ OpenVideo(sid, h)
    \/ \E sid \in Sids : OpenVideoGot(sid)
    \/ \E sid \in Sids : OpenVideoComments(sid)
    \/ \E sid \in Sids : OpenVideoLoop(sid)
    \/ \E sid \in Sids : session[sid] = Admin /\ AddComment(sid, "v1", 0, "a", "")
    \/ \E sid \in Sids : AddCommentGot(sid)
    \/ \E sid \in Sids : AddCommentEmit(sid)
    \/ \E sid \in Sids, id \in CommentIds(comments) :
          session[sid] = Admin /\ EditComment(sid, id, "b")
    \/ \E sid \in Sids : EditCommentGot(sid)
    \/ \E sid \in Sids : EditCommentDel(sid)
    \/ \E sid \in Sids : EditCommentReget(sid)
    \/ \E sid \in Sids : EditCommentEmit(sid)
    \/ \E sid \in Sids, id \in CommentIds(comments) :
          session[sid] = Admin /\ DelComment(sid, id)
    \/ \E sid \in Sids : DelCommentGot(sid)
    \/ \E sid \in Sids : DelCommentCheck(sid)
    \/ \E sid \in Sids : DelCommentEmit(sid)
    \/ \E sid \in Sids : session[sid] = "u1" /\ ListMyVideos(sid)
    \/ \E sid \in Sids : ListMyVideosEmit(sid)
    \/ \E sid \in Sids : session[sid] = "u1" /\ ListMyMessages(sid)
    \/ \E sid \in Sids : ListEmit(sid)
    \/ \E sid \in Sids : ListSeen(sid)

\* two connected clients, u1 and admin, in no room of a video yet; video v1 has
\* one comment; what each connection receives is recorded for every comment id
InitJoin ==
    /\ conn = [s \in Sids |-> IF s <= 2 THEN "open" ELSE "free"]
    /\ session = [s \in Sids |-> IF s = 1 THEN "u1" ELSE IF s = 2 THEN Admin ELSE ""]
    /\ userid_to_sid = Put(Put(<<>>, "u1", 1), Admin, 2)
    /\ rooms = [s \in Sids |-> IF s <= 2 THEN {Lobby} ELSE {}]
    /\ messages = <<>>
    /\ videos = [h \in Hashes |-> IF h = "v1" THEN "u1" ELSE "u2"]
    /\ comments = <<[NoComment EXCEPT !.id = 1, !.video_hash = "v1", !.user_id = "u1",
                                      !.comment = "a"]>>
    /\ nextId = 2
    /\ files = {}
    /\ task = [t \in TaskIds |-> IdleTask]
    /\ out = NoOut
    /\ view = [s \in Sids |-> [id \in 1..MaxComments |-> "none"]]
    /\ InitMain
    /\ NoUpload

\* u1 opens videos and may disconnect while admin adds comments, with and
\* without a drawing
NextJoin ==
    \/ \E sid \in Sids : session[sid] = "u1" /\ Disconnect(sid)
    \/ \E sid \in Sids, h \in Hashes : session[sid] = "u1" /\ OpenVideo(sid, h)
    \/ \E sid \in Sids : OpenVideoGot(sid)
    \/ \E sid \in Sids : OpenVideoComments(sid)
    \/ \E sid \in Sids : OpenVideoLoop(sid)
    \/ \E t \in TaskIds : NewCommentEmit(t)
    \/ \E sid \in Sids, h \in Hashes, drawing \in Drawings :
          session[sid] = Admin /\ AddComment(sid, h, 0, "a", drawing)
    \/ \E sid \in Sids : AddCommentGot(sid)
    \/ \E sid \in Sids : AddCommentStore(sid)
    \/ \E sid \in Sids : AddCommentEmit(sid)

\* two connected clients in the room of video v1: u1, the author of comment 1,
\* and admin; the comment has a drawing, stored in a file; what each connection
\* receives is recorded
InitEdits ==
    /\ conn = [s \in Sids |-> IF s <= 2 THEN "open" ELSE "free"]
    /\ session = [s \in Sids |-> IF s = 1 THEN "u1" ELSE IF s = 2 THEN Admin ELSE ""]
    /\ userid_to_sid = Put(Put(<<>>, "u1", 1), Admin, 2)
    /\ rooms = [s \in Sids |-> IF s <= 2 THEN {Lobby, "v1"} ELSE {}]
    /\ messages = <<>>
    /\ videos = [h \in {"v1"} |-> "u1"]
    /\ comments = <<[NoComment EXCEPT !.id = 1, !.video_hash = "v1", !.user_id = "u1",
                                      !.comment = "a", !.drawing = "d1"]>>
    /\ nextId = 2
    /\ files = {<<"v1", "d1">>}
    /\ task = [t \in TaskIds |-> IdleTask]
    /\ out = NoOut
    /\ view = [s \in Sids |-> [id \in 1..MaxComments |-> "none"]]
    /\ InitMain
    /\ NoUpload

\* both clients edit the comment, interleaved at the awaits of the handler
NextEdits ==
    \/ \E sid \in Sids, id \in CommentIds(comments), text \in Texts :
          EditComment(sid, id, text)
    \/ \E sid \in Sids : EditCommentGot(sid)
    \/ \E sid \in Sids : EditCommentDel(sid)
    \/ \E sid \in Sids : EditCommentReget(sid)
    \/ \E sid \in Sids : EditCommentEmit(sid)
    \/ \E t \in TaskIds : NewCommentEmit(t)

\* the mailbox: run_server's pushes to u1 and the listings of the connections
Spec == Init /\ [][Next]_vars

SpecPush == Init /\ [][NextPush]_vars

SpecRooms == Init /\ [][NextRooms]_vars

SpecComments == InitComments /\ [][NextComments]_vars

SpecOpen == InitOpen /\ [][NextOpen]_vars

SpecAuth == InitAuth /\ [][NextAuth]_vars

SpecBridge == InitBridge /\ [][NextBridge]_vars

SpecUpload == InitUpload /\ [][NextUpload]_vars

SpecIsolation == InitIsolation /\ [][NextIsolation]_vars

SpecJoin == InitJoin /\ [][NextJoin]_vars

SpecEdits == InitEdits /\ [][NextEdits]_vars

\* the event loop runs a stage or a handler that is ready
SpecUploadFair ==
    /\ SpecUpload
    /\ WF_vars(UploadField) /\ WF_vars(UploadOpen) /\ WF_vars(UploadGather)
    /\ WF_vars(ReaderRead) /\ WF_vars(ReaderPut)
    /\ WF_vars(WriterGet) /\ WF_vars(WriterWrite)

\* the event loop runs a task that is ready, the thread that join() waits for has
\* been told to stop and does, and go() gets to look at its loop condition
SpecBridgeFair ==
    /\ SpecBridge
    /\ WF_vars(ApiStart) /\ WF_vars(BridgeStart) /\ WF_vars(BridgePoll)
    /\ WF_vars(GoLoopExit) /\ WF_vars(GoJoin)
    /\ WF_vars(vp_interrupt_flag /\ WorkerStop)

\* ============================================================ properties
\* ------------------------------------------------------------------ C1
\* C1 (as claimed): a stored message becomes seen only in a step of a
\* list_my_messages of its recipient, and only when the message has been emitted
\* to a connection of the recipient that was connected at the emit.
C1_SeenOnlyAfterDelivery ==
    [][\A k \in 1..Len(messages) :
          (~messages[k].seen /\ messages'[k].seen)
             => /\ \E sid \in Sids :
                      /\ task[sid].kind = "list_my_messages"
                      /\ task[sid].pc = "list_seen"
                      /\ task[sid].i = k
                      /\ task[sid].user_id = messages[k].user_id
                      /\ task'[sid] # task[sid]
                /\ messages'[k].got]_vars

\* ------------------------------------------------------------------ C2
\* C2: a persisted push whose recipient has no route stores the message unseen
\* under the recipient and emits to nobody; a listing of the recipient reads every
\* stored message of the recipient with the seen flag it has in storage, emits
\* each one to the calling sid in turn and marks each one it read as unseen
\* before it goes on; a seen message stays seen, so a listing that reads storage
\* after the marking returns it as seen.
C2_OfflinePushThenListing ==
    [][/\ (out'.pushEnd # "" /\ out'.push.persist /\ out'.route = {})
             => out'.ev = "" /\ out'.to = {}
       /\ (task[Server].pc # "push_emit" /\ task'[Server].pc = "push_emit"
             /\ task'[Server].push.pres = "ok")
             => /\ Len(messages') = Len(messages) + 1
                /\ task'[Server].push.id = Len(messages')
                /\ messages'[Len(messages')].user_id = task'[Server].push.user_id
                /\ ~messages'[Len(messages')].seen
       /\ \A sid \in Sids :
             (~Running(sid) /\ task'[sid].kind = "list_my_messages")
                => \A k \in 1..Len(messages) :
                      messages[k].user_id = session[sid]
                         => \E j \in 1..Len(task'[sid].msgs) :
                               /\ task'[sid].msgs[j].id = k
                               /\ task'[sid].msgs[j].seen = messages[k].seen
       /\ \A sid \in Sids :
             (task[sid].pc = "list_next" /\ task'[sid] # task[sid])
                => /\ out'.ev = "message" /\ out'.toSid = sid
                   /\ out'.id = Head(task[sid].msgs).id
                   /\ IF Head(task[sid].msgs).seen
                      THEN task'[sid].pc = "list_next"
                              => task'[sid].msgs = Tail(task[sid].msgs)
                      ELSE /\ task'[sid].pc = "list_seen"
                           /\ task'[sid].i = Head(task[sid].msgs).id
                           /\ task'[sid].msgs = Tail(task[sid].msgs)
       /\ \A sid \in Sids :
             (task[sid].pc = "list_seen" /\ task'[sid] # task[sid])
                => /\ messages'[task[sid].i].seen
                   /\ task[sid].msgs # <<>>
                         => /\ task'[sid].pc = "list_next"
                            /\ task'[sid].msgs = task[sid].msgs
       /\ \A k \in 1..Len(messages) : messages[k].seen => messages'[k].seen]_vars

\* C2 witness: a message pushed while its recipient had no route was later emitted
\* to a connected sid by a listing and marked seen
C2_Witness ==
    \E k \in 1..Len(messages) :
        messages[k].offline /\ messages[k].got /\ messages[k].seen

\* ------------------------------------------------------------------ C3
\* C3 (as claimed): whenever a push_message call ends and the recipient had a
\* route at that time, the call emitted the message to the routed sid, whatever
\* became of the persistence.
C3_EmitsWhateverPersistence ==
    (out.pushEnd # "" /\ out.route # {})
       => /\ out.toSid \in out.route
          /\ out.ev = "message" \/ out.dfail

\* C3 (amended): a push_message call whose persistence failed with dont_throw
\* unset ends by raising, without an emit; every other call whose recipient has a
\* route when the call reaches the delivery emits the message to the routed sid,
\* persisted or not.
C3_EmitsUnlessPersistenceRaised ==
    out.pushEnd # ""
       => IF out.push.pres = "fail" /\ ~out.push.dont_throw
          THEN out.pushEnd = "raised" /\ out.ev = "" /\ out.toSid = 0
          ELSE out.route # {}
                  => /\ out.toSid \in out.route
                     /\ out.ev = "message" \/ out.dfail

\* C3 witness: the persistence failed, the failure was suppressed, and the message
\* was still emitted to the connected sid of the recipient
C3_Witness ==
    /\ out.pushEnd = "returned"
    /\ out.push.pres = "fail"
    /\ out.ev = "message"
    /\ out.to = out.route
    /\ out.to # {}

\* ------------------------------------------------------------------ C4
\* C4: a push_message call with dont_throw set never ends by raising; with
\* dont_throw unset, a call whose persistence failed or whose emit failed ends
\* by raising.
C4_SuppressErrors ==
    out.pushEnd # ""
       => /\ out.push.dont_throw => out.pushEnd = "returned"
          /\ (~out.push.dont_throw /\ (out.push.pres = "fail" \/ out.dfail))
                => out.pushEnd = "raised"

\* C4 witness: both the persistence and the emit failed in one call with
\* dont_throw set, and the call returned
C4_Witness ==
    /\ out.pushEnd = "returned"
    /\ out.push.dont_throw
    /\ out.push.pres = "fail"
    /\ out.dfail

\* ------------------------------------------------------------------ C5
\* C5 (as claimed): when the connect handler of a connection returns and the
\* connection is still connected, the route of its identity is the newest
\* connected connection of the identity (the connection itself, unless a later
\* connect of the identity has taken over since); and a push is never emitted to
\* a connection after a later connect of the same identity.
C5_LastConnectWins ==
    [][/\ \A sid \in Sids :
             (task[sid].kind = "connect" /\ task'[sid].kind = "idle"
                /\ conn'[sid] = "open")
                => \E s \in Sids :
                      /\ conn'[s] = "open" /\ session'[s] = session'[sid]
                      /\ \A s2 \in Sids :
                            (conn'[s2] = "open" /\ session'[s2] = session'[sid])
                               => s2 <= s
                      /\ session'[sid] \in DOMAIN userid_to_sid'
                      /\ userid_to_sid'[session'[sid]] = s
       /\ (out'.pushEnd # "" /\ out'.ev = "message")
             => ~\E s2 \in Sids :
                   /\ s2 > out'.toSid
                   /\ conn'[s2] # "free"
                   /\ session'[s2] = session'[out'.toSid]]_vars

\* ------------------------------------------------------------------ C6
\* C6: a connection that has disconnected is in no room and is the route of no
\* identity; the route of an identity is none or a connected sid of that
\* identity; and a connection that stays connected never leaves a room.
C6_RegistryRooms ==
    [][/\ \A c \in Sids :
             conn'[c] = "closed"
                => /\ rooms'[c] = {}
                   /\ RoomMembers(Lobby)' \cup UNION {RoomMembers(h)' : h \in Hashes}
                         \subseteq {s \in Sids : conn'[s] = "open"}
                   /\ \A u \in Users : Route(u)' # {c}
       /\ \A u \in Users :
             \A s \in Route(u)' : conn'[s] = "open" /\ session'[s] = u
       /\ \A s \in Sids :
             (conn[s] = "open" /\ conn'[s] = "open") => rooms[s] \subseteq rooms'[s]]_vars

\* C6 witness: a connection that had entered the room of a video has disconnected,
\* while another connection is still in that room
C6_Witness ==
    \E c \in Sids, s \in Sids :
        /\ conn[c] = "closed"
        /\ task[c].kind = "open_video"
        /\ task[c].pc = "open_video_loop"
        /\ conn[s] = "open"
        /\ task[c].video_hash \in rooms[s]

\* ------------------------------------------------------------------ C7
\* C7 (as claimed): an edit_comment that has stored its edit and broadcast
\* del_comment for the comment, on a video that still exists, ends with exactly
\* one new_comment for the same comment to the same members, carrying the text
\* of this edit or the text storage holds; no handler ends having emitted the
\* del_comment alone.
C7_EditIsDelThenNew ==
    [][\A sid \in Sids :
          (/\ task[sid].kind = "edit_comment"
           /\ task[sid].sent # <<>>
           /\ task[sid].video_hash \in DOMAIN videos
           /\ task'[sid].kind = "idle")
             => /\ Len(task[sid].sent) = 1
                /\ task[sid].sent[1].ev = "del_comment"
                /\ task[sid].sent[1].id = task[sid].comment_id
                /\ out'.ev = "new_comment"
                /\ out'.by = sid
                /\ out'.id = task[sid].comment_id
                /\ out'.to = task[sid].sent[1].to
                /\ out'.text \in {task[sid].text,
                                  DbGetComment(task[sid].comment_id).comment}]_vars

\* ------------------------------------------------------------------ C8
\* C8: open_video of an existing video by a connected caller enters the caller
\* into the room of the video and emits the open_video descriptor to the caller;
\* the handler then reads the comments of the video in storage order and emits one
\* new_comment per comment read to the caller, in that order, nothing else and
\* nothing twice; open_video of an unknown video enters no room and emits nothing
\* but an error message.
C8_OpenVideoOrder ==
    [][\A sid \in Sids :
          LET rec  == task[sid]
              rec2 == task'[sid]
              h    == rec.video_hash
              rest == (IF rec.pc = "new_comment_emit" THEN <<rec.c>> ELSE <<>>)
                         \o rec.snap
          IN  (rec.kind = "open_video" /\ rec2 # rec)
                 => /\ (rec.pc = "open_video_got" /\ rec.owner # "" /\ conn[sid] = "open")
                          => /\ rooms'[sid] = rooms[sid] \cup {h}
                             /\ out'.ev = "open_video"
                             /\ out'.text = h
                             /\ out'.toSid = sid /\ out'.to = {sid}
                             /\ rec2.pc = "open_video_comments"
                             /\ Len(rec2.sent) = 1 /\ rec2.sent[1].ev = "open_video"
                    /\ rec.pc = "open_video_comments"
                          => /\ out'.ev = ""
                             /\ IF \A k \in 1..Len(comments) : comments[k].video_hash # h
                                THEN rec2.kind = "idle"
                                ELSE /\ rec2.pc = "open_video_loop"
                                     /\ rec2.sent = rec.sent
                                     /\ \A k \in 1..Len(comments) :
                                           comments[k].video_hash = h
                                              => \E i \in 1..Len(rec2.snap) :
                                                    rec2.snap[i] = comments[k]
                                     /\ \A i \in 1..Len(rec2.snap) :
                                           /\ rec2.snap[i].video_hash = h
                                           /\ \E k \in 1..Len(comments) :
                                                 rec2.snap[i] = comments[k]
                                     /\ \A i, j \in 1..Len(rec2.snap) :
                                           i < j =>
                                             \E k, l \in 1..Len(comments) :
                                                /\ k < l
                                                /\ comments[k] = rec2.snap[i]
                                                /\ comments[l] = rec2.snap[j]
                    /\ rec.pc \in {"open_video_loop", "new_comment_emit"}
                          => /\ rec.sent[1].ev = "open_video"
                             /\ \A i \in 2..Len(rec.sent) : rec.sent[i].ev = "new_comment"
                             /\ IF out'.ev = "new_comment"
                                THEN /\ out'.id = Head(rest).id
                                     /\ out'.toSid = sid /\ out'.to = {sid}
                                     /\ rec2.kind = "idle" <=> Tail(rest) = <<>>
                                     /\ rec2.kind # "idle"
                                           => /\ rec2.pc = "open_video_loop"
                                              /\ rec2.snap = Tail(rest)
                                              /\ Len(rec2.sent) = Len(rec.sent) + 1
                                              /\ rec2.sent[Len(rec2.sent)].id = Head(rest).id
                                ELSE /\ out'.ev = ""
                                     /\ rec2.pc = "new_comment_emit"
                                     /\ <<rec2.c>> \o rec2.snap = rest
                                     /\ rec2.sent = rec.sent
                    /\ rec.owner = ""
                          => /\ rooms' = rooms
                             /\ out'.ev \in {"", "message"}
                             /\ out'.ev = "message"
                                   => out'.text \in {"No such video.",
                                                     "Failed to lookup video."}
                             /\ rec2.sent = <<>>]_vars

\* C8 witness: an open_video has entered the room, emitted the descriptor and the
\* first comment of its snapshot to the caller, and has more of the snapshot to go
C8_Witness ==
    \E sid \in Sids :
        /\ task[sid].kind = "open_video"
        /\ task[sid].pc = "open_video_loop"
        /\ task[sid].video_hash \in rooms[sid]
        /\ Len(task[sid].sent) = 2
        /\ task[sid].sent[2].ev = "new_comment"
        /\ task[sid].sent[2].to = {sid}
        /\ task[sid].snap # <<>>
        /\ task[sid].sent[2].id < Head(task[sid].snap).id

\* ------------------------------------------------------------------ C9
\* C9 (as claimed): when del_comment reaches its delete for a comment that has a
\* reply on the same video in storage, the handler fails: storage stays as it is
\* and the handler does not go on to broadcast del_comment.
C9_DeleteWithReplyFails ==
    [][\A sid \in Sids :
          (/\ task[sid].pc = "del_comment_check"
           /\ task'[sid] # task[sid]
           /\ \E k \in 1..Len(comments) :
                 /\ comments[k].parent_id = task[sid].comment_id
                 /\ comments[k].id # task[sid].comment_id
                 /\ comments[k].video_hash = task[sid].video_hash)
             => /\ comments' = comments
                /\ task'[sid].pc # "del_comment_emit"]_vars

\* ----------------------------------------------------------------- C10
\* C10 (as claimed): every stored comment with a parent_id has its parent in
\* storage, on the same video.
C10_CommentTree ==
    \A k \in 1..Len(comments) :
        comments[k].parent_id # 0
           => \E j \in 1..Len(comments) :
                 /\ comments[j].id = comments[k].parent_id
                 /\ comments[j].video_hash = comments[k].video_hash

\* ----------------------------------------------------------------- C11
\* C11 (as claimed): del_video removes the video and every comment on it in one
\* storage step, made before the confirmation is pushed; the handler broadcasts
\* no del_comment; and once the video is gone a comment lookup for it returns
\* nothing in every later state, whatever add_comment was in flight.
C11_DelVideoCascade ==
    [][/\ \A sid \in Sids :
             (task[sid].kind = "del_video" /\ task'[sid] # task[sid])
                => /\ out'.ev # "del_comment"
                   /\ videos' # videos
                         => /\ task[sid].video_hash \notin DOMAIN videos'
                            /\ task'[sid].pc = "del_video_confirm"
                            /\ out'.pushEnd = "" /\ out'.ev = ""
       /\ \A h \in Hashes :
             h \notin DOMAIN videos' => DbGetVideoComments(h)' = <<>>]_vars

C13_EveryResultConsumedOnce ==
    /\ \A k \in 1..MaxResults :
          (hist.deposited >= k)
             ~> (\E i \in 1..Len(hist.taken) : hist.taken[i].orig_file = k)
    /\ [](\A i, j \in 1..Len(hist.taken) :
             i # j => hist.taken[i].orig_file # hist.taken[j].orig_file)

\* ----------------------------------------------------------------- C14
\* C14 (as claimed): a poll of vp_result_deliverer made while the worker is alive
\* and the flag is not set leaves vp_result_queue empty and has put, for every
\* result that was in it and in their order, one message into the queue that
\* run_server pushes with persist=True: addressed to the result's file_owner_id,
\* with its video_hash, and with severity success or error after its success flag.
C14_PollDrains ==
    [][(/\ task_go = "loop"
        /\ task_msg = "sleep"
        /\ WorkerRunning
        /\ task_msg' # task_msg \/ Len(vp_result_queue') < Len(vp_result_queue))
          => /\ vp_result_queue' = <<>>
             /\ push_message_queue' =
                   push_message_queue \o
                   [k \in 1..Len(vp_result_queue) |->
                      [event_name |-> "info",
                       user_id |-> vp_result_queue[k].file_owner_id,
                       video_hash |-> vp_result_queue[k].video_hash,
                       severity |-> IF vp_result_queue[k].success THEN "success"
                                    ELSE "error"]]]_vars

\* ----------------------------------------------------------------- C15
\* C15 (as claimed): once the worker thread has ended while the flag was not
\* set, vp_result_deliverer ends at its next look at the loop condition, and
\* the end of the thread ends neither go()'s supervision of the tasks nor the
\* api task: the loop of go() is not left because the thread is not alive, and
\* the api task is not cancelled on that account.
C15_DegradedMode ==
    [][vp_thread = "died"
          => /\ (task_msg = "sleep" /\ task_msg' # task_msg) => task_msg' # "sleep"
             /\ (task_go = "loop" /\ task_go' # "loop") => hist'.why # "worker"
             /\ (task_api # "cancelled" /\ task_api' = "cancelled")
                   => hist'.why # "worker"]_vars

C17_Backpressure ==
    [][/\ Len(inq') <= QueueSize
       /\ Len(inq') > Len(inq)
             => /\ Len(inq) < QueueSize
                /\ Len(inq') = Len(inq) + 1
                /\ SubSeq(inq', 1, Len(inq)) = inq
                /\ reader.pc \in {"read", "put"}
                /\ reader' # reader
                /\ writer' = writer
       /\ (reader.pc = "read" /\ reader'.pc = "put")
             => Len(inq) = QueueSize /\ inq' = inq
       /\ (reader.pc = "read" /\ reader'.pc \in {"read", "done"} /\ reader' # reader)
             => Len(inq) < QueueSize
       /\ (reader.pc = "put" /\ Len(inq) = QueueSize) => reader' = reader
       /\ (reader.pc = "put" /\ reader' # reader)
             => /\ Len(inq) < QueueSize
                /\ inq' = Append(inq, reader.c)
       /\ (writer'.pc = "get" /\ disk'.written = <<>>)
             => \A k \in 1..Len(inq') : inq'[k] \in {k, 0}]_vars

\* C17 witness: the writer has taken nothing, the first 8 chunks are queued, and
\* the reader is suspended in put with the ninth
C17_Witness ==
    /\ inq = [k \in 1..QueueSize |-> k]
    /\ reader.pc = "put"
    /\ reader.c = QueueSize + 1
    /\ writer.pc = "get"
    /\ disk.written = <<>>

\* ----------------------------------------------------------------- C18
\* C18 (as claimed): once the handler has ended because a stage of the upload
\* raised, the exception that leaves the handler is the one the stage raised,
\* the file that was opened is still on disk, and the other stage stops: it
\* does not stay suspended on inq for ever.
C18_StageFailureCancels ==
    /\ []((upload.pc = "ended" /\ (reader.pc = "failed" \/ writer.pc = "failed"))
             => upload.response = "StageError" /\ disk.file = "closed")
    /\ (upload.pc = "ended" /\ (reader.pc = "failed" \/ writer.pc = "failed"))
          ~> (/\ reader.pc \in {"done", "failed", "cancelled"}
              /\ writer.pc \in {"done", "failed", "cancelled"})

\* ----------------------------------------------------------------- C19
\* C19: when the handler comes to a fileupload field whose filename has a
\* directory part, it ends by raising at the check of the filename: that step
\* and every later step make no directory and no file, read no chunk, queue
\* nothing and call the ingestion callback not at all.
C19_PathRejected ==
    [][/\ (/\ upload.pc = "field"
           /\ upload' # upload
           /\ upload.fields # <<>>
           /\ Head(upload.fields).name = "fileupload"
           /\ HasPath(Head(upload.fields).filename))
             => /\ upload'.pc = "ended"
                /\ upload'.response = "AssertionError"
                /\ upload'.filename = Head(upload.fields).filename
                /\ UNCHANGED <<inq, reader, writer, disk, ingested>>
       /\ (upload.response = "AssertionError" /\ HasPath(upload.filename))
             => /\ UNCHANGED pipeline
                /\ disk = [dir |-> FALSE, file |-> "none", written |-> <<>>]
                /\ reader = NoStage /\ writer = NoStage
                /\ inq = <<>> /\ ingested = <<>>]_vars

\* C19 witness: an upload named d/f was rejected with nothing on disk
C19_Witness ==
    /\ upload.pc = "ended"
    /\ upload.response = "AssertionError"
    /\ upload.filename = <<"d", "/", "f">>
    /\ upload.callback
    /\ ~disk.dir /\ disk.file = "none"
    /\ reader.n = 0 /\ ingested = <<>>

\* ----------------------------------------------------------------- C20
\* C20: with an ingestion callback configured, the callback is called only in
\* the step in which the handler finds both stages done, after the writer has
\* written every chunk of the stream in order and has ended, with the path of
\* the stored file and the uploader's id, once, and in that step the handler
\* answers 200; the handler that finds both stages done always calls it; a 200
\* is answered only with the call made; an upload that ended otherwise (400,
\* 500, an exception of the filename check, of open or of a stage) has no call.
C20_IngestOnce ==
    [][/\ ingested' # ingested
             => /\ upload.pc = "gather" /\ upload.callback
                /\ reader.pc = "done" /\ writer.pc = "done"
                /\ reader.n = upload.total
                /\ disk.written = [k \in 1..upload.total |-> k]
                /\ inq = <<>>
                /\ ingested = <<>>
                /\ ingested' = <<[dst |-> upload.filename,
                                  user_id |-> upload.user_id]>>
                /\ upload'.response = "200 Upload OK"
                /\ upload'.pc = "ended"
       /\ (upload.pc = "gather" /\ upload' # upload /\ upload.callback
              /\ reader.pc = "done" /\ writer.pc = "done")
             => Len(ingested') = 1
       /\ (upload'.response = "200 Upload OK" /\ upload'.callback)
             => Len(ingested') = 1
       /\ (upload'.pc = "ended" /\ upload'.response # "200 Upload OK")
             => ingested' = <<>>
       /\ upload.pc = "ended" => ingested' = ingested]_vars

\* C20 witness: an upload of two chunks by u1 was stored, the callback was called
\* with its path and u1, and 200 was answered
C20_Witness ==
    /\ upload.response = "200 Upload OK"
    /\ upload.total = 2
    /\ disk.written = <<1, 2>>
    /\ disk.file = "closed"
    /\ ingested = <<[dst |-> <<"f">>, user_id |-> "u1"]>>

\* ----------------------------------------------------------------- C21
\* C21: a new_comment or del_comment a comment handler emits goes to the room
\* named by the video of the comment, and reaches exactly the connections that
\* are connected and have entered that room when the emit is made; the handlers
\* take the room from the comment in storage; the open_video descriptor, the
\* new_comment events of an open_video snapshot, the user_videos reply and the
\* message events of list_my_messages are emitted to the sid of the request and
\* reach no other connection.
C21_RoomIsolation ==
    [][/\ \A sid \in Sids :
             LET rec == task[sid]
             IN  /\ (rec.kind = "idle"
                        /\ task'[sid].kind \in {"edit_comment", "del_comment"})
                       => /\ task'[sid].c = DbGetComment(task'[sid].comment_id)
                          /\ task'[sid].c # NoComment
                                => task'[sid].c.id = task'[sid].comment_id
                 /\ (rec.pc \in {"edit_comment_got", "del_comment_got"}
                        /\ task'[sid].pc \in {"edit_comment_del", "del_comment_check"})
                       => task'[sid].video_hash = rec.c.video_hash
                 /\ (rec.kind \in {"edit_comment", "del_comment"}
                        /\ task'[sid].kind = rec.kind /\ rec.video_hash # "")
                       => task'[sid].video_hash = rec.video_hash
                 /\ (rec.kind \in {"add_comment", "edit_comment", "del_comment"}
                        /\ task'[sid] # rec
                        /\ out'.ev \in {"new_comment", "del_comment"})
                       => /\ out'.by = sid
                          /\ out'.toSid = 0
                          /\ out'.toRoom = rec.video_hash
                          /\ out'.toRoom \in Hashes
                          /\ out'.ev = "new_comment"
                                => /\ out'.id = rec.c.id
                                   /\ out'.toRoom = rec.c.video_hash
                          /\ out'.ev = "del_comment" => out'.id = rec.comment_id
                          /\ out'.to = {s \in Sids : /\ conn[s] = "open"
                                                      /\ out'.toRoom \in rooms[s]}
                 /\ (rec.kind \in {"open_video", "list_my_videos", "list_my_messages"}
                        /\ task'[sid] # rec
                        /\ out'.ev # "")
                       => /\ out'.ev \in {"open_video", "new_comment", "user_videos",
                                           "message"}
                          /\ out'.by = sid
                          /\ out'.toRoom = ""
                          /\ out'.toSid = sid
                          /\ out'.to = IF conn[sid] = "open" THEN {sid} ELSE {}
       /\ \A k \in 1..Len(comments), j \in 1..Len(comments') :
             comments[k].id = comments'[j].id
                => comments[k].video_hash = comments'[j].video_hash
       /\ out'.ev \in {"new_comment", "del_comment", "open_video", "user_videos"}
             => \E sid \in Sids : task'[sid] # task[sid] /\ out'.by = sid]_vars

\* C21 witness: a new_comment of video v1 was broadcast and reached the one
\* connection in room v1, while another connection is connected, in the room of
\* video v2 only
C21_Witness ==
    /\ out.ev = "new_comment"
    /\ out.toRoom = "v1"
    /\ Cardinality(out.to) = 1
    /\ \E s \in Sids :
          /\ s \notin out.to
          /\ conn[s] = "open"
          /\ "v2" \in rooms[s]
          /\ "v1" \notin rooms[s]

\* ----------------------------------------------------------------- C22
\* C22 (as claimed): whenever the connection an identity established last is
\* still connected, the route of the identity is that connection, and a push to
\* the identity that reaches its delivery is emitted to that connection.
C22_RouteIsNewestLive ==
    \A u \in Users :
        LET mine   == {s \in Sids : conn[s] # "free" /\ session[s] = u}
            newest == CHOOSE s \in mine : \A s2 \in mine : s2 <= s
        IN  (mine # {} /\ conn[newest] = "open")
               => /\ Route(u) = {newest}
                  /\ (out.pushEnd # "" /\ out.push.user_id = u /\ out.route # {})
                        => out.toSid = newest

\* ----------------------------------------------------------------- C23
\* C23: open_video enters the room of the video in the step before the one that
\* reads the snapshot; when the open_video of an existing video returns to a
\* caller that is connected, and at any time later while the caller stays
\* connected, the caller has received a new_comment for every comment of the
\* video that is in storage and whose add_comment has made its broadcast.
C23_NoCommentMissed ==
    [][\A s \in Sids :
          LET Added(c) == \A t \in Sids :
                             ~(task'[t].kind = "add_comment" /\ task'[t].c.id = c.id)
              GotAll(h) == \A k \in 1..Len(comments') :
                              (comments'[k].video_hash = h /\ Added(comments'[k]))
                                 => view'[s][comments'[k].id] # "none"
          IN  /\ (task[s].pc = "open_video_comments" /\ conn[s] = "open")
                    => task[s].video_hash \in rooms[s]
              /\ (task[s].kind = "open_video" /\ task[s].owner # ""
                     /\ task'[s].kind = "idle" /\ conn'[s] = "open")
                    => GotAll(task[s].video_hash)
              /\ \A h \in Hashes :
                    (conn'[s] = "open" /\ h \in rooms'[s]
                       /\ task'[s].kind # "open_video")
                      => GotAll(h)]_vars

\* C23 witness: a comment that was stored after the caller's open_video had read
\* its snapshot has reached the caller through the room, while the handler
\* still has the snapshot to send
C23_Witness ==
    \E s \in Sids :
        /\ task[s].kind = "open_video"
        /\ task[s].pc = "open_video_loop"
        /\ conn[s] = "open"
        /\ Len(task[s].snap) = 1
        /\ view[s][1] = "none"
        /\ view[s][2] # "none"
        /\ Len(comments) = 2
        /\ comments[2].video_hash = task[s].video_hash

\* ----------------------------------------------------------------- C24
\* C24 (as claimed): whenever no edit_comment handler is running, the last
\* new_comment a connected member of the room has received for a stored comment
\* carries the text storage holds for the comment.
C24_EditsConverge ==
    (\A t \in Sids : task[t].kind # "edit_comment")
       => \A s \in Sids, k \in 1..Len(comments) :
             (/\ conn[s] = "open"
              /\ comments[k].video_hash \in rooms[s]
              /\ view[s][comments[k].id] # "none")
                => view[s][comments[k].id] = comments[k].comment

\* ----------------------------------------------------------------- C25
\* C25 (as claimed): a del_video handler that found the video goes to its except
\* block, where 'Failed to delete video.' is pushed to the requester, only while
\* the video and its comments are still in storage and without a stored
\* 'Video deleted.' confirmation of the same request; this holds also when the
\* persistence or the emit of the confirmation raises.
C25_DelVideoOutcome ==
    [][\A sid \in Sids :
          LET rec == task[sid]
          IN  (/\ rec.kind = "del_video"
               /\ rec.owner # ""
               /\ rec.pc # "del_video_except"
               /\ task'[sid].pc = "del_video_except")
                 => /\ rec.video_hash \in DOMAIN videos'
                    /\ ~(rec.push.text = "Video deleted." /\ rec.push.pres = "ok")]_vars

\* ----------------------------------------------------------------- C26
\* C26: as long as no stage has failed, the chunks written to the file, the
\* chunk the writer holds, the chunks queued and the chunk the suspended reader
\* holds are, in this order, the chunks read from the stream so far, each once;
\* None is queued only after the whole stream was read, by the reader as it
\* ends, and is never followed by an item; when both stages have ended the file
\* holds the chunks of the stream in order and the queue is empty; and once the
\* stages have started, both end unless one fails.
C26_StreamRelayed ==
    LET NoFail   == reader.pc # "failed" /\ writer.pc # "failed"
        Queued   == IF inq # <<>> /\ inq[Len(inq)] = 0
                    THEN SubSeq(inq, 1, Len(inq) - 1) ELSE inq
        InFlight == disk.written
                       \o (IF writer.pc = "write" THEN <<writer.c>> ELSE <<>>)
                       \o Queued
                       \o (IF reader.pc = "put" /\ reader.c # 0 THEN <<reader.c>>
                           ELSE <<>>)
    IN  /\ [](NoFail
                => /\ InFlight = [k \in 1..reader.n |-> k]
                   /\ reader.n <= upload.total
                   /\ \A k \in 1..Len(inq) : inq[k] = 0 => k = Len(inq)
                   /\ (reader.pc = "done" \/ (reader.pc = "put" /\ reader.c = 0))
                         => reader.n = upload.total
                   /\ (\E k \in 1..Len(inq) : inq[k] = 0) => reader.pc = "done"
                   /\ writer.pc = "done" => reader.pc = "done" /\ inq = <<>>
                   /\ (reader.pc = "done" /\ writer.pc = "done")
                         => disk.written = [k \in 1..upload.total |-> k])
        /\ (upload.pc = "gather")
              ~> (~NoFail \/ (reader.pc = "done" /\ writer.pc = "done"))

\* C26 witness: a stream of more chunks than the queue holds was relayed: both
\* stages have ended and the file holds every chunk in order
C26_Witness ==
    /\ upload.total = MaxChunks
    /\ reader.pc = "done"
    /\ writer.pc = "done"
    /\ inq = <<>>
    /\ disk.written = [k \in 1..MaxChunks |-> k]
====
